---------------------------- MODULE Spec2Model ----------------------------
(***************************************************************************)
(* A model of the Du Novo pipeline stages (makrutenko/dunovo):             *)
(*   - the grouping loops that cut a sorted stream of records into one     *)
(*     unit per barcode (align-families.py, make-consensi.py,              *)
(*     dunovo_parsers.py),                                                 *)
(*   - the barcode correction of correct.py (graph, correction table,      *)
(*     corrected output),                                                  *)
(*   - the duplex consensus step of make-consensi.py.                      *)
(* Each stage has its own specification over the shared variables; the     *)
(* variables of the other stages stay at their idle values.                *)
(***************************************************************************)
EXTENDS Integers, Sequences, FiniteSets, TLC

VARIABLES
  \* ---- grouping loops ----
  prog,      \* which loop runs
  infile,    \* the lines read from the input so far
  loc,       \* the local variables of the loop
  units,     \* the units handed over so far (pool.compute calls / yields)
  gpc,       \* "reading" | "done" | "error"
  exc,       \* the exception that ended the loop, None if none did
  \* ---- correct.py ----
  cpc,       \* position in main(): "sam" | "counts" | "table" | "print" | "done" | "error"
  args,      \* the command line arguments of correct.py
  sam,       \* how much of the alignment stream was read
  graph,     \* [nodes, edges]: the networkx.Graph of barcodes
  reversed_barcodes,
  families,  \* the families file (read twice)
  fam,       \* get_family_counts locals and result
  corr,      \* the correction table
  outp,      \* print_corrected_output: line_num, the lines printed, the locals of the last turn
  \* ---- make-consensi.py process_duplex / duplex merge ----
  dpc,       \* "submitted" | "result" | "written" | "error"
  dup,       \* the unit being processed and what was made of it
  \* ---- the duplex merge of one alignment ----
  mpc,       \* "aligned" | "merged"
  mrg,       \* the alignment and the duplex consensus made of it
  \* ---- align-families.py process_duplex ----
  apc,       \* "submitted" | "result" | "error"
  msa,       \* the unit being aligned and what was made of it
  \* ---- sscs.py main ----
  spc,       \* "reading" | "done"
  ssc,       \* the locals of main() and what was printed
  \* ---- make-consensi.py make_sscs on one alignment column ----
  kpc,       \* "family" | "called"
  vote,      \* the column, the thresholds and the consensus base
  \* ---- main() of align-families.py and of make-consensi.py ----
  main,      \* the script, the position in main(), args, stats, the exit status
  pool,      \* the SyncAsyncPool: the calls made on it, the results of the workers
  written    \* what the callback wrote: stdout, or the four output files

gvars == <<prog, infile, loc, units, gpc, exc>>
cvars == <<cpc, args, sam, graph, reversed_barcodes, families, fam, corr, outp>>
dvars == <<dpc, dup, mpc, mrg>>
evars == <<apc, msa, spc, ssc, kpc, vote>>
wvars == <<main, pool, written>>
vars == <<gvars, cvars, dvars, evars, wvars>>

\* Python's None, where it is compared with strings.
None == "None"

(***************************************************************************)
(* Bounds.                                                                 *)
(***************************************************************************)
MaxLines == 4      \* input lines of a grouping loop
MaxAlns == 2       \* alignments in the SAM stream of correct.py
MaxFamLines == 3   \* lines of the families file of correct.py
MaxScore == 1      \* the largest Smith-Waterman score
MaxReads == 2      \* reads of one family of a duplex
MaxSeqLen == 1     \* bases of a single-strand consensus
MaxCols == 3       \* columns of an alignment handed to the duplex merge

Barcodes == {"AC", "CA", "GG", "TT"}
GroupBarcodes == {"AC", "CA"}
Orders == {"ab", "ba"}
Mates == {1, 2}

(***************************************************************************)
(* Helpers: Python lists and collections.OrderedDict.                      *)
(* An OrderedDict is a sequence of [k, v] entries in insertion order.      *)
(***************************************************************************)
Range(s) == {s[i] : i \in DOMAIN s}

ODKeys(d) == {d[i].k : i \in DOMAIN d}

ODHas(d, key) == key \in ODKeys(d)

ODGet(d, key) == d[CHOOSE i \in DOMAIN d : d[i].k = key].v

\* d[key] = value: an existing key keeps its position, a new one goes last.
ODPut(d, key, value) ==
  IF ODHas(d, key)
    THEN [i \in DOMAIN d |-> IF d[i].k = key THEN [k |-> key, v |-> value] ELSE d[i]]
    ELSE Append(d, [k |-> key, v |-> value])

(***************************************************************************)
(* Input lines of the grouping loops.  A line either has the number of     *)
(* columns the loop expects ("rec") or not ("bad").  The read columns      *)
(* (names, sequences, qualities) are stood for by the line's number, which *)
(* is what the families collect.  The 8-column formats (one read pair per  *)
(* line) have no mate column: mate is 0 there.  Their two read names are   *)
(* kept as they are, a sequence of characters each; the 6-column format    *)
(* has one name, which no loop looks at.  The order column is any string:  *)
(* "xx" is one that is neither "ab" nor "ba".                              *)
(***************************************************************************)
Space == " "

\* "r/1 x", "r/2 y", "r/2", "r/1", "r", "s", "r/2/1", "r/1/2".
NamePairs ==
  {<<<<"r", "/", "1", Space, "x">>, <<"r", "/", "2", Space, "y">>>>,
   <<<<"r", "/", "2">>, <<"r", "/", "1">>>>,
   <<<<"r">>, <<"s">>>>,
   <<<<"r", "/", "1">>, <<"r", "/", "1">>>>,
   <<<<"r", "/", "2", "/", "1">>, <<"r", "/", "1", "/", "2">>>>}

GoodNames == <<<<"r", "/", "1", Space, "x">>, <<"r", "/", "2", Space, "y">>>>

LineOrders == Orders \cup {"xx"}

BadLine == [kind |-> "bad", bar |-> "", order |-> "", mate |-> 0, names |-> <<>>]

NamedPairLines == {[kind |-> "rec", bar |-> b, order |-> o, mate |-> 0, names |-> ns] :
                     b \in GroupBarcodes, o \in Orders, ns \in NamePairs}

PairLines == {[kind |-> "rec", bar |-> b, order |-> o, mate |-> 0, names |-> GoodNames] :
                b \in GroupBarcodes, o \in LineOrders}

ReadLines == {[kind |-> "rec", bar |-> b, order |-> o, mate |-> m, names |-> <<>>] :
                b \in GroupBarcodes, o \in LineOrders, m \in Mates}

Progs == {"align_families", "process_families", "parse_make_families", "parse_msa"}

LinesOf(p) ==
  (CASE p = "align_families" -> NamedPairLines
     [] p = "parse_make_families" -> PairLines
     [] OTHER -> ReadLines)
    \cup {BadLine}


(***************************************************************************)
(* Optional values that are compared with records or integers:             *)
(* <<>> is None, <<x>> is the value x.                                     *)
(***************************************************************************)
Nothing == <<>>

Some(x) == <<x>>

\* What one step of a loop does: the new locals, the units handed over, and
\* whether it raised.
StepResult(l, emitted, raised) ==
  [loc |-> l, emit |-> emitted, err |-> raised, exc |-> None]

\* The step raises the exception e.
StepRaise(l, e) == [loc |-> l, emit |-> <<>>, err |-> TRUE, exc |-> e]

(***************************************************************************)
(* align-families.py: assert_read_ids_match() (the one of correct.py,      *)
(* lines 375-390, is the same function).                                   *)
(***************************************************************************)
\* name.split()[0]: the first whitespace-delimited token; <<>> if there is
\* none, where Python raises an IndexError.
RECURSIVE LStrip(_)
LStrip(s) == IF s = <<>> THEN <<>> ELSE IF s[1] = Space THEN LStrip(Tail(s)) ELSE s

RECURSIVE TakeToken(_)
TakeToken(s) ==
  IF s = <<>> THEN <<>>
  ELSE IF s[1] = Space THEN <<>>
  ELSE <<s[1]>> \o TakeToken(Tail(s))

FirstToken(name) == TakeToken(LStrip(name))

EndsWith(s, suffix) ==
  IF Len(s) < Len(suffix) THEN FALSE
  ELSE SubSeq(s, Len(s) - Len(suffix) + 1, Len(s)) = suffix

Slash1 == <<"/", "1">>

Slash2 == <<"/", "2">>

\* id[:-2]
DropTwo(id) == SubSeq(id, 1, Len(id) - 2)

SwappedMatesError == "ValueError: Mate 1 ends with /2 and mate 2 ends with /1"

MismatchError == "ValueError: Read names do not match"

\* Lines 277-280 done to both names alike: either suffix comes off either name.
StrippedIds_either(name1, name2) ==
  LET Strip(id) == IF EndsWith(id, Slash1) \/ EndsWith(id, Slash2) THEN DropTwo(id) ELSE id
  IN <<Strip(FirstToken(name1)), Strip(FirstToken(name2))>>

\* Lines 275-280: "/1" comes off the first id, "/2" off the second.
StrippedIds(name1, name2) ==
  LET id1 == FirstToken(name1)
      id2 == FirstToken(name2)
  IN <<IF EndsWith(id1, Slash1) THEN DropTwo(id1) ELSE id1,
       IF EndsWith(id2, Slash2) THEN DropTwo(id2) ELSE id2>>

\* Lines 281-289 with the generic error in the place of the specific one.
IdsVerdict_generic(id1, id2) == IF id1 = id2 THEN None ELSE MismatchError

\* Lines 281-289: None if the ids match, else the exception raised.
IdsVerdict(id1, id2) ==
  IF id1 = id2 THEN None
  ELSE IF EndsWith(id1, Slash2) /\ EndsWith(id2, Slash1) THEN SwappedMatesError
  ELSE MismatchError

\* None where the function returns True, else the exception it raises.
assert_read_ids_match(name1, name2) ==
  IF FirstToken(name1) = <<>> THEN "IndexError"
  ELSE IF FirstToken(name2) = <<>> THEN "IndexError"
  ELSE LET ids == StrippedIds(name1, name2)
       IN IdsVerdict(ids[1], ids[2])

(***************************************************************************)
(* align-families.py: align_families().                                    *)
(***************************************************************************)
align_families_init(check_ids) ==
  [duplex |-> <<>>, family |-> <<>>, barcode |-> None, order |-> None,
   duplexes |-> 0, pairs |-> 0, check_ids |-> check_ids]

\* Lines 242-243.
CheckIds(l, line) ==
  IF l.check_ids THEN assert_read_ids_match(line.names[1], line.names[2]) ELSE None

\* Lines 244-262: the record goes into its family; n is the line's number.
align_families_record(l, line, n) ==
      LET new_family == line.bar # l.barcode \/ line.order # l.order
          new_barcode == line.bar # l.barcode
          stored == IF new_family THEN ODPut(l.duplex, l.order, l.family) ELSE l.duplex
          submit == new_family /\ new_barcode /\ l.barcode # None
          duplex1 == IF new_family /\ new_barcode THEN <<>> ELSE stored
          family1 == IF new_family THEN <<>> ELSE l.family
      IN StepResult(
           [duplex |-> duplex1, family |-> Append(family1, n),
            barcode |-> line.bar, order |-> line.order,
            duplexes |-> l.duplexes + (IF submit THEN 1 ELSE 0),
            pairs |-> l.pairs + 1, check_ids |-> l.check_ids],
           IF submit THEN <<[barcode |-> l.barcode, duplex |-> stored]>> ELSE <<>>,
           FALSE)

\* An align_families that would check the read names only after the record
\* has gone into its family.
align_families_line_late_check(l, line, n) ==
  IF line.kind # "rec"
    THEN StepResult(l, <<>>, FALSE)
  ELSE IF CheckIds(l, line) # None
    THEN [align_families_record(l, line, n) EXCEPT !.err = TRUE, !.exc = CheckIds(l, line)]
    ELSE align_families_record(l, line, n)

\* An align_families that would count the lines it skips.
align_families_line_counts_skipped(l, line, n) ==
  IF line.kind # "rec"
    THEN StepResult([l EXCEPT !.pairs = @ + 1], <<>>, FALSE)
  ELSE IF CheckIds(l, line) # None
    THEN StepRaise(l, CheckIds(l, line))
    ELSE align_families_record(l, line, n)

\* One iteration of "for line in infile" (lines 237-262).
align_families_line(l, line, n) ==
  IF line.kind # "rec"
    THEN StepResult(l, <<>>, FALSE)
  ELSE IF CheckIds(l, line) # None
    THEN StepRaise(l, CheckIds(l, line))
    ELSE align_families_record(l, line, n)

\* A bug that would lose the last family: the duplex is submitted as it is.
align_families_end_unstored(l) ==
  StepResult([l EXCEPT !.duplexes = @ + 1],
             <<[barcode |-> l.barcode, duplex |-> l.duplex]>>, FALSE)

\* After the loop (lines 263-268): store the last family, submit the last duplex.
align_families_end(l) ==
  LET stored == ODPut(l.duplex, l.order, l.family)
  IN StepResult([l EXCEPT !.duplex = stored, !.duplexes = @ + 1],
                <<[barcode |-> l.barcode, duplex |-> stored]>>, FALSE)

(***************************************************************************)
(* make-consensi.py: process_families().                                   *)
(***************************************************************************)
MaxDuplexFamilies == 4

\* --min-reads of make-consensi.py (line 83), min_reads of OPT_DEFAULTS of
\* sscs.py (line 13).
DefaultMinReads == 3

process_families_init ==
  [duplex |-> <<>>, family |-> <<>>, barcode |-> None, order |-> None,
   mate |-> Nothing, duplexes |-> 0, total_reads |-> 0]

\* The family under construction goes into the duplex under (order, mate)
\* (lines 293-294 and 309-310).
StoreFamily(l) ==
  IF l.order # None /\ l.mate # Nothing
    THEN ODPut(l.duplex, <<l.order, l.mate[1]>>, l.family)
    ELSE l.duplex

\* One iteration of "for line in infile" (lines 277-307).  A comment line is
\* skipped like a line with the wrong number of columns.
process_families_line(l, line, n) ==
  IF line.kind # "rec"
    THEN StepResult(l, <<>>, FALSE)
    ELSE
      LET this_mate == line.mate - 1
          new_barcode == line.bar # l.barcode
          new_order == line.order # l.order
          new_mate == Some(this_mate) # l.mate
          changed == new_barcode \/ new_order \/ new_mate
          stored == IF changed THEN StoreFamily(l) ELSE l.duplex
          submit == changed /\ new_barcode /\ l.barcode # None
          family1 == IF changed THEN <<>> ELSE l.family
      IN IF submit /\ Len(stored) > MaxDuplexFamilies
           THEN StepRaise(l, "AssertionError")
           ELSE StepResult(
                  [duplex |-> IF submit THEN <<>> ELSE stored,
                   family |-> Append(family1, n),
                   barcode |-> line.bar, order |-> line.order, mate |-> Some(this_mate),
                   duplexes |-> l.duplexes + (IF submit THEN 1 ELSE 0),
                   total_reads |-> l.total_reads + 1],
                  IF submit THEN <<[barcode |-> l.barcode, duplex |-> stored]>> ELSE <<>>,
                  FALSE)

\* After the loop (lines 308-313).
process_families_end(l) ==
  LET stored == StoreFamily(l)
  IN IF Len(stored) > MaxDuplexFamilies
       THEN StepRaise(l, "AssertionError")
       ELSE StepResult([l EXCEPT !.duplex = stored, !.duplexes = @ + 1],
                       <<[barcode |-> l.barcode, duplex |-> stored]>>, FALSE)

(***************************************************************************)
(* dunovo_parsers.py: the family classes and their truth values.           *)
(* A field that may be None is an optional value.                          *)
(***************************************************************************)
ReadFamily(mate, reads) == [mate |-> mate, reads |-> reads]

StrandFamily(order, mate1, mate2) == [order |-> order, mate1 |-> mate1, mate2 |-> mate2]

BarFamily(bar, ab, ba) == [bar |-> bar, ab |-> ab, ba |-> ba]

ReadFamilyBool(rf) == rf # Nothing /\ Len(rf[1].reads) > 0

StrandFamilyBool(sf) ==
  sf # Nothing /\ (ReadFamilyBool(sf[1].mate1) \/ ReadFamilyBool(sf[1].mate2))

BarFamilyBool(bf) ==
  bf # Nothing /\ (StrandFamilyBool(bf[1].ab) \/ StrandFamilyBool(bf[1].ba))

other_mate(mate) == IF mate = 1 THEN 2 ELSE 1

other_order(order) == IF order = "ab" THEN "ba" ELSE "ab"

MateField(mate) == IF mate = 1 THEN "mate1" ELSE "mate2"

(***************************************************************************)
(* dunovo_parsers.py: parse_make_families().                               *)
(***************************************************************************)
parse_make_families_init ==
  [strand_families |-> <<>>, strand_family_lines |-> <<>>,
   last_barcode |-> None, last_order |-> None]

\* lines: the [order, n] of the lines of one strand family (never empty).
create_strand_family(lines) ==
  LET reads == [i \in DOMAIN lines |-> lines[i].n]
  IN StrandFamily(lines[Len(lines)].order,
                  Some(ReadFamily(1, reads)), Some(ReadFamily(2, reads)))

CreateStrandFamilyRaises(lines) ==
  \E i \in DOMAIN lines :
    \/ lines[i].order \notin {"ab", "ba"}
    \/ i > 1 /\ lines[i].order # lines[i-1].order

\* The exception of the first line that raises: the order is tested (lines
\* 126-127) before it is compared with the last one (line 128).
CreateStrandFamilyException(lines) ==
  LET raising == {i \in DOMAIN lines :
                    \/ lines[i].order \notin {"ab", "ba"}
                    \/ i > 1 /\ lines[i].order # lines[i-1].order}
      first == CHOOSE i \in raising : \A j \in raising : i <= j
  IN IF lines[first].order \notin {"ab", "ba"} THEN "DunovoFormatError" ELSE "AssertionError"

\* The last strand family of the given order, or an empty one (lines 140-150).
PlaceStrand(sfs, order) ==
  LET hits == {i \in DOMAIN sfs : sfs[i].order = order}
  IN IF hits = {}
       THEN StrandFamily(order, Some(ReadFamily(1, <<>>)), Some(ReadFamily(2, <<>>)))
       ELSE sfs[CHOOSE i \in hits : \A j \in hits : j <= i]

\* A create_bar_family that would leave a strand without lines as None.
create_bar_family_sparse(sfs, barcode) ==
  LET Place(order) == IF \E i \in DOMAIN sfs : sfs[i].order = order
                        THEN Some(PlaceStrand(sfs, order)) ELSE Nothing
  IN BarFamily(barcode, Place("ab"), Place("ba"))

create_bar_family(sfs, barcode) ==
  BarFamily(barcode, Some(PlaceStrand(sfs, "ab")), Some(PlaceStrand(sfs, "ba")))

\* The assertion of line 138.
CreateBarFamilyRaises(sfs) == ~(1 <= Len(sfs) /\ Len(sfs) <= 2)

\* One iteration of the loop (lines 94-113).
parse_make_families_line(l, line, n) ==
  IF line.kind # "rec"
    THEN StepRaise(l, "DunovoFormatError")
    ELSE
      LET new_strand == line.bar # l.last_barcode \/ line.order # l.last_order
          new_barcode == line.bar # l.last_barcode
          close_strand == new_strand /\ l.last_order # None
          sfs1 == IF close_strand
                    THEN Append(l.strand_families, create_strand_family(l.strand_family_lines))
                    ELSE l.strand_families
          lines1 == IF new_strand THEN <<>> ELSE l.strand_family_lines
          yield == new_barcode /\ l.last_barcode # None
      IN IF close_strand /\ CreateStrandFamilyRaises(l.strand_family_lines)
           THEN StepRaise(l, CreateStrandFamilyException(l.strand_family_lines))
         ELSE IF yield /\ CreateBarFamilyRaises(sfs1)
           THEN StepRaise(l, "AssertionError")
           ELSE StepResult(
                  [strand_families |-> IF new_barcode THEN <<>> ELSE sfs1,
                   strand_family_lines |-> Append(lines1, [order |-> line.order, n |-> n]),
                   last_barcode |-> line.bar, last_order |-> line.order],
                  IF yield THEN <<create_bar_family(sfs1, l.last_barcode)>> ELSE <<>>,
                  FALSE)

\* After the loop (lines 114-117).
parse_make_families_end(l) ==
  LET close_strand == l.last_order # None
      sfs1 == IF close_strand
                THEN Append(l.strand_families, create_strand_family(l.strand_family_lines))
                ELSE l.strand_families
      yield == l.last_barcode # None
  IN IF close_strand /\ CreateStrandFamilyRaises(l.strand_family_lines)
       THEN StepRaise(l, CreateStrandFamilyException(l.strand_family_lines))
     ELSE IF yield /\ CreateBarFamilyRaises(sfs1)
       THEN StepRaise(l, "AssertionError")
       ELSE StepResult([l EXCEPT !.strand_families = sfs1],
                       IF yield THEN <<create_bar_family(sfs1, l.last_barcode)>> ELSE <<>>,
                       FALSE)

(***************************************************************************)
(* dunovo_parsers.py: parse_msa().                                         *)
(***************************************************************************)
parse_msa_init ==
  [bar_family |-> Nothing, last_bar |-> None, last_order |-> None, last_mate |-> Nothing]

\* One iteration of the loop (lines 156-203).  strand_family and read_family
\* are looked up in bar_family whenever it exists (lines 177-180) and are None
\* when it does not, so they are not kept between iterations.
parse_msa_line(l, line, n) ==
  IF line.kind # "rec"
    THEN StepRaise(l, "DunovoFormatError")
  ELSE IF line.order \notin {"ab", "ba"}
    \* An order that is no field of BarFamily: getattr fails (line 178), or
    \* BarFamily(**attrs) does (line 192).
    THEN [StepResult(l, IF line.bar # l.last_bar /\ BarFamilyBool(l.bar_family)
                          THEN <<l.bar_family[1]>> ELSE <<>>, TRUE)
            EXCEPT !.exc = IF line.bar # l.last_bar THEN "TypeError" ELSE "AttributeError"]
    ELSE
      LET order == line.order
          mate == line.mate
          new_bar == line.bar # l.last_bar
          yield == new_bar /\ BarFamilyBool(l.bar_family)
          bar_family0 == IF new_bar THEN Nothing ELSE l.bar_family
          strand_family0 == IF bar_family0 # Nothing THEN bar_family0[1][order] ELSE Nothing
          read_family0 == IF strand_family0 # Nothing
                            THEN strand_family0[1][MateField(mate)] ELSE Nothing
          read_family1 == IF read_family0 = Nothing
                            THEN ReadFamily(mate, <<>>) ELSE read_family0[1]
          strand_family1 ==
            IF strand_family0 = Nothing
              THEN [order |-> order] @@ (MateField(mate) :> Some(read_family1))
                     @@ (MateField(other_mate(mate)) :> Nothing)
              ELSE strand_family0[1]
          bar_family1 ==
            IF bar_family0 = Nothing
              THEN [bar |-> line.bar] @@ (order :> Some(strand_family1))
                     @@ (other_order(order) :> Nothing)
              ELSE bar_family0[1]
          read_family2 == [read_family1 EXCEPT !.reads = Append(@, n)]
          strand_family2 == [strand_family1 EXCEPT ![MateField(mate)] = Some(read_family2)]
          bar_family2 == [bar_family1 EXCEPT ![order] = Some(strand_family2)]
      IN StepResult(
           [bar_family |-> Some(bar_family2), last_bar |-> line.bar,
            last_order |-> order, last_mate |-> Some(mate)],
           IF yield THEN <<l.bar_family[1]>> ELSE <<>>,
           FALSE)

\* After the loop (lines 204-205).
parse_msa_end(l) ==
  StepResult(l, IF BarFamilyBool(l.bar_family) THEN <<l.bar_family[1]>> ELSE <<>>, FALSE)

(***************************************************************************)
(* The grouping loops as a state machine: lines arrive one at a time, the  *)
(* end of the input closes the run.                                        *)
(***************************************************************************)
LoopInit(p, check_ids) ==
  CASE p = "align_families" -> align_families_init(check_ids)
    [] p = "process_families" -> process_families_init
    [] p = "parse_make_families" -> parse_make_families_init
    [] p = "parse_msa" -> parse_msa_init

IdleGroup ==
  /\ prog = "none" /\ infile = <<>> /\ loc = <<>> /\ units = <<>> /\ gpc = "idle"
  /\ exc = None

IdleCorrect ==
  /\ cpc = "idle" /\ args = <<>> /\ sam = <<>> /\ graph = <<>> /\ reversed_barcodes = {} /\ families = <<>>
  /\ fam = <<>> /\ corr = <<>> /\ outp = <<>>

IdleDuplex == dpc = "idle" /\ dup = <<>> /\ mpc = "idle" /\ mrg = <<>>

IdleAlign == apc = "idle" /\ msa = <<>>

IdleSscs == spc = "idle" /\ ssc = <<>>

IdleVote == kpc = "idle" /\ vote = <<>>

IdleMain == main = <<>> /\ pool = <<>> /\ written = <<>>

InitGroup ==
  /\ prog \in Progs
  /\ infile = <<>>
  /\ \E check_ids \in (IF prog = "align_families" THEN BOOLEAN ELSE {TRUE}) :
       loc = LoopInit(prog, check_ids)
  /\ units = <<>>
  /\ gpc = "reading"
  /\ exc = None
  /\ IdleCorrect /\ IdleDuplex /\ IdleAlign /\ IdleSscs /\ IdleVote /\ IdleMain

\* The effect of one step: locals, units handed over, an exception ends the run.
Took(r, ok) ==
  /\ loc' = r.loc
  /\ units' = units \o r.emit
  /\ gpc' = IF r.err THEN "error" ELSE ok
  /\ exc' = r.exc

ReadsLine(p) ==
  /\ gpc = "reading" /\ prog = p
  /\ Len(infile) < MaxLines

AlignFamiliesLine ==
  /\ ReadsLine("align_families")
  /\ \E line \in LinesOf(prog) :
       /\ infile' = Append(infile, line)
       /\ Took(align_families_line(loc, line, Len(infile) + 1), "reading")
  /\ UNCHANGED <<prog, cvars, dvars, evars, wvars>>

AlignFamiliesEnd ==
  /\ gpc = "reading" /\ prog = "align_families"
  /\ Took(align_families_end(loc), "done")
  /\ UNCHANGED <<prog, infile, cvars, dvars, evars, wvars>>

ProcessFamiliesLine ==
  /\ ReadsLine("process_families")
  /\ \E line \in LinesOf(prog) :
       /\ infile' = Append(infile, line)
       /\ Took(process_families_line(loc, line, Len(infile) + 1), "reading")
  /\ UNCHANGED <<prog, cvars, dvars, evars, wvars>>

ProcessFamiliesEnd ==
  /\ gpc = "reading" /\ prog = "process_families"
  /\ Took(process_families_end(loc), "done")
  /\ UNCHANGED <<prog, infile, cvars, dvars, evars, wvars>>

ParseMakeFamiliesLine ==
  /\ ReadsLine("parse_make_families")
  /\ \E line \in LinesOf(prog) :
       /\ infile' = Append(infile, line)
       /\ Took(parse_make_families_line(loc, line, Len(infile) + 1), "reading")
  /\ UNCHANGED <<prog, cvars, dvars, evars, wvars>>

ParseMakeFamiliesEnd ==
  /\ gpc = "reading" /\ prog = "parse_make_families"
  /\ Took(parse_make_families_end(loc), "done")
  /\ UNCHANGED <<prog, infile, cvars, dvars, evars, wvars>>

ParseMsaLine ==
  /\ ReadsLine("parse_msa")
  /\ \E line \in LinesOf(prog) :
       /\ infile' = Append(infile, line)
       /\ Took(parse_msa_line(loc, line, Len(infile) + 1), "reading")
  /\ UNCHANGED <<prog, cvars, dvars, evars, wvars>>

ParseMsaEnd ==
  /\ gpc = "reading" /\ prog = "parse_msa"
  /\ Took(parse_msa_end(loc), "done")
  /\ UNCHANGED <<prog, infile, cvars, dvars, evars, wvars>>

NextGroup ==
  \/ AlignFamiliesLine \/ AlignFamiliesEnd
  \/ ProcessFamiliesLine \/ ProcessFamiliesEnd
  \/ ParseMakeFamiliesLine \/ ParseMakeFamiliesEnd
  \/ ParseMsaLine \/ ParseMsaEnd

SpecGroup == InitGroup /\ [][NextGroup]_vars

(***************************************************************************)
(* What the claims about the grouping loops speak of.                      *)
(***************************************************************************)
\* The numbers of the well-formed lines.
RecIdx(f) == {i \in DOMAIN f : f[i].kind = "rec"}

\* The lines of each barcode are contiguous (malformed lines aside).
BarcodeContiguous(f) ==
  \A i, j, k \in RecIdx(f) :
    (i < j /\ j < k /\ f[i].bar = f[k].bar) => f[j].bar = f[i].bar

LineKey(line) == <<line.bar, line.order, line.mate>>

\* Each (barcode, order[, mate]) run is contiguous, and so is each barcode.
SortedInput(f) ==
  /\ BarcodeContiguous(f)
  /\ \A i, j, k \in RecIdx(f) :
       (i < j /\ j < k /\ LineKey(f[i]) = LineKey(f[k])) => LineKey(f[j]) = LineKey(f[i])

\* The distinct barcodes of the well-formed lines, in order of first appearance.
RECURSIVE FirstBarcodes(_)
FirstBarcodes(f) ==
  IF f = <<>> THEN <<>>
  ELSE LET front == FirstBarcodes(SubSeq(f, 1, Len(f) - 1))
           last == f[Len(f)]
       IN IF last.kind = "rec" /\ last.bar \notin Range(front)
            THEN Append(front, last.bar) ELSE front

AllButLast(s) == IF s = <<>> THEN <<>> ELSE SubSeq(s, 1, Len(s) - 1)

UnitBarcode(p, u) ==
  IF p \in {"align_families", "process_families"} THEN u.barcode ELSE u.bar

UnitBarcodes == [i \in DOMAIN units |-> UnitBarcode(prog, units[i])]

\* The families of a unit, each with the key it is filed under.
FamiliesOf(p, u) ==
  CASE p = "align_families" ->
         {[bar |-> u.barcode, order |-> u.duplex[i].k, mate |-> 0, reads |-> u.duplex[i].v] :
            i \in DOMAIN u.duplex}
    [] p = "process_families" ->
         {[bar |-> u.barcode, order |-> u.duplex[i].k[1], mate |-> u.duplex[i].k[2] + 1,
           reads |-> u.duplex[i].v] : i \in DOMAIN u.duplex}
    [] OTHER ->
         {[bar |-> u.bar, order |-> o, mate |-> m, reads |-> u[o][1][MateField(m)][1].reads] :
            <<o, m>> \in {om \in Orders \X Mates :
                            /\ u[om[1]] # Nothing
                            /\ u[om[1]][1][MateField(om[2])] # Nothing}}

\* The (unit, family) places that hold line n.
Holders(n) ==
  {h \in UNION {{<<ui, fm>> : fm \in FamiliesOf(prog, units[ui])} : ui \in DOMAIN units} :
     n \in Range(h[2].reads)}

Increasing(s) == \A i, j \in DOMAIN s : i < j => s[i] < s[j]

\* C1 (as claimed): with the lines of each barcode contiguous, the loops hand
\* over exactly one unit per distinct barcode, in order of first appearance,
\* and a unit only once a record of another barcode or the end of the input
\* has been seen.
C1_OneUnitPerBarcode ==
  (/\ prog \in {"align_families", "process_families", "parse_make_families"}
   /\ BarcodeContiguous(infile))
    => /\ gpc = "done" => UnitBarcodes = FirstBarcodes(infile)
       /\ gpc = "reading" => UnitBarcodes = AllButLast(FirstBarcodes(infile))

\* The unit has a barcode and a read.
RealUnit(u) ==
  /\ UnitBarcode(prog, u) # None
  /\ \E fm \in FamiliesOf(prog, u) : Len(fm.reads) >= 1

\* C28: at the end of a run of the grouping loop of align-families.py or of
\* make-consensi.py over barcode-contiguous input, 'duplexes' is the number
\* of distinct barcodes of the well-formed records, and every unit handed to
\* the pool has a barcode and at least one read: none is handed over, and
\* 'duplexes' is 0, for an input without a well-formed record.
C28_DuplexesCountsBarcodes ==
  (prog \in {"align_families", "process_families"} /\ BarcodeContiguous(infile)) =>
    /\ (gpc = "done") => loc.duplexes = Len(FirstBarcodes(infile))
    /\ \A i \in DOMAIN units : RealUnit(units[i])

\* The same for an input with a well-formed record.
DuplexesCountsBarcodesUnlessEmpty ==
  (/\ prog \in {"align_families", "process_families"}
   /\ BarcodeContiguous(infile)
   /\ FirstBarcodes(infile) # <<>>) =>
    /\ (gpc = "done") => loc.duplexes = Len(FirstBarcodes(infile))
    /\ \A i \in DOMAIN units : RealUnit(units[i])

\* All four read families of the unit are there, with or without reads.
FullyPopulated(u) ==
  \A o \in Orders :
    /\ u[o] # Nothing
    /\ \A m \in Mates : u[o][1][MateField(m)] # Nothing

\* Every family of the unit that is there has a read, every strand that is
\* there has a mate, and the unit has a strand.
Sparse(u) ==
  /\ \E o \in Orders : u[o] # Nothing
  /\ \A o \in Orders :
       u[o] # Nothing =>
         /\ \E m \in Mates : u[o][1][MateField(m)] # Nothing
         /\ \A m \in Mates :
              u[o][1][MateField(m)] # Nothing => Len(u[o][1][MateField(m)][1].reads) >= 1

\* The claim as it stands: no BarFamily of either parser has an absent field.
C22_NoFamilyAbsent ==
  prog \in {"parse_make_families", "parse_msa"} =>
    \A i \in DOMAIN units : FullyPopulated(units[i])

\* C22: every BarFamily of parse_make_families has its two StrandFamily
\* fields and each of them its two ReadFamily fields, one without reads for
\* what the barcode lacks.  In a BarFamily of parse_msa a field that is there
\* has reads: a strand or a mate without lines is None.
C22_AbsentOnlyInParseMsa ==
  /\ prog = "parse_make_families" =>
       \A i \in DOMAIN units :
         /\ FullyPopulated(units[i])
         /\ \A o \in Orders :
              Len(units[i][o][1].mate1[1].reads) = Len(units[i][o][1].mate2[1].reads)
  /\ prog = "parse_msa" => \A i \in DOMAIN units : Sparse(units[i])

\* parse_msa has yielded a barcode with lines of strand ab, mate 1, only: its
\* ba field and the mate2 field of ab are None; and parse_make_families has
\* yielded one with an empty strand ba.
C22_Witness ==
  /\ prog = "parse_msa" /\ gpc = "done"
  /\ \E i \in DOMAIN units :
       /\ units[i].ab # Nothing /\ units[i].ba = Nothing
       /\ units[i].ab[1].mate1 # Nothing /\ units[i].ab[1].mate2 = Nothing

C22_WitnessEmptyStrand ==
  /\ prog = "parse_make_families" /\ gpc = "done"
  /\ \E i \in DOMAIN units :
       /\ Len(units[i].ab[1].mate1[1].reads) >= 1
       /\ units[i].ba[1].mate1[1].reads = <<>>

\* C2: for sorted input, once the input has ended every well-formed record is
\* in exactly one family of exactly one unit, the one keyed by its own barcode,
\* order and mate; the reads of a family are in input order, none twice, and
\* every read of a family is a well-formed record of the input.
C2_EveryRecordInItsFamily ==
  (/\ gpc = "done"
   /\ prog \in {"align_families", "process_families", "parse_msa"}
   /\ SortedInput(infile))
    => /\ \A n \in RecIdx(infile) :
            /\ Cardinality(Holders(n)) = 1
            /\ \A h \in Holders(n) :
                 <<h[2].bar, h[2].order, h[2].mate>> = LineKey(infile[n])
       /\ \A ui \in DOMAIN units : \A fm \in FamiliesOf(prog, units[ui]) :
            /\ Increasing(fm.reads)
            /\ Range(fm.reads) \subseteq RecIdx(infile)

\* A sorted run of two barcodes, the first with two families, one of two reads.
C2_Witness ==
  /\ gpc = "done" /\ prog = "process_families" /\ SortedInput(infile)
  /\ Len(units) = 2
  /\ Cardinality(FamiliesOf(prog, units[1])) = 2
  /\ \E fm \in FamiliesOf(prog, units[1]) : Len(fm.reads) = 2

(***************************************************************************)
(* Claims about the read names, the malformed lines and the strand orders  *)
(* of the grouping loops.                                                  *)
(***************************************************************************)
LastLine == infile[Len(infile)]

ChecksIds == prog = "align_families" /\ loc.check_ids

\* The id without the two characters "/" d at its end, if it ends so.
Trimmed(id, d) ==
  IF Len(id) >= 2
    THEN IF id[Len(id) - 1] = "/" /\ id[Len(id)] = d THEN SubSeq(id, 1, Len(id) - 2) ELSE id
    ELSE id

TrimmedOfEither(id) == IF Trimmed(id, "1") # id THEN Trimmed(id, "1") ELSE Trimmed(id, "2")

\* The names match once "/1" is off the first id and "/2" off the second.
NamesMatch(names) ==
  Trimmed(FirstToken(names[1]), "1") = Trimmed(FirstToken(names[2]), "2")

\* The names match once "/1" or "/2" is off each of the two ids.
NamesMatchLoosely(names) ==
  TrimmedOfEither(FirstToken(names[1])) = TrimmedOfEither(FirstToken(names[2]))

\* Line n is in no family and in no unit.
InNoFamily(n) ==
  /\ n \notin Range(loc.family)
  /\ \A i \in DOMAIN loc.duplex : n \notin Range(loc.duplex[i].v)
  /\ Holders(n) = {}

EndSwapped(names) ==
  /\ EndsWith(Trimmed(FirstToken(names[1]), "1"), Slash2)
  /\ EndsWith(Trimmed(FirstToken(names[2]), "2"), Slash1)

ReadsMalformedLine == gpc = "reading" /\ infile' = Append(infile, BadLine)

OrdersSeen(b) == {infile[i].order : i \in {j \in RecIdx(infile) : infile[j].bar = b}}

\* C18 (as claimed, for the loops that group by barcode): a run that saw more
\* than two orders for a barcode does not end normally, and hands over no unit
\* of that barcode.
C18_ThreeOrdersAreFatal ==
  prog \in {"process_families", "parse_make_families"} =>
    \A b \in GroupBarcodes :
      Cardinality(OrdersSeen(b)) > 2 =>
        /\ gpc # "done"
        /\ \A i \in DOMAIN units : UnitBarcode(prog, units[i]) # b

(***************************************************************************)
(* correct.py.  Barcodes are two letters long, one letter per half.        *)
(***************************************************************************)
\* The fasta file of barcodes: read number n is named n and has sequence
\* Reads[n].
Reads == <<"AC", "CA", "GG", "TT">>

\* limit is not None and n > limit
OverLimit(limit, n) == limit # Nothing /\ n > limit[1]

\* map_names_to_barcodes (lines 245-260).
map_names_to_barcodes(limit) ==
  [name \in {n \in DOMAIN Reads : ~OverLimit(limit, n)} |-> Reads[name]]

\* barcode2[half:] + barcode2[:half] (lines 492-493).
HalfSwap(barcode) ==
  CASE barcode = "AC" -> "CA"
    [] barcode = "CA" -> "AC"
    [] OTHER -> barcode

\* The defaults of --pos, --mapq and --dist.
PosThres == 2
MapqThres == 20
DistThres == 3

Abs(x) == IF x < 0 THEN -x ELSE x

\* One alignment of the SAM stream as filter_alignment reads it.
GoodAln(q, r, rev) ==
  [qname |-> q, rname |-> r, reversed |-> rev, star |-> FALSE, missing |-> FALSE,
   unmapped |-> FALSE, pos |-> 1, mapq |-> MapqThres, nm |-> Some(DistThres),
   seq_has_N |-> FALSE]

AlnVariants(a) ==
  {a,
   [a EXCEPT !.star = TRUE],
   [a EXCEPT !.missing = TRUE],
   [a EXCEPT !.unmapped = TRUE],
   [a EXCEPT !.pos = PosThres + 2],
   [a EXCEPT !.pos = PosThres + 1],
   [a EXCEPT !.mapq = MapqThres - 1],
   [a EXCEPT !.nm = Some(DistThres + 1)],
   [a EXCEPT !.nm = Nothing],
   [a EXCEPT !.nm = Nothing, !.seq_has_N = TRUE]}

Alignments ==
  UNION {AlnVariants(GoodAln(q, r, rev)) :
           <<q, r, rev>> \in (DOMAIN Reads) \X (DOMAIN Reads) \X BOOLEAN}

\* A filter without the test of the mapping quality.
filter_alignment_any_mapq(aln, pos_thres, mapq_thres, dist_thres, allow_no_nm_if_ns) ==
  IF aln.star THEN "skip"
  ELSE IF aln.qname = aln.rname THEN "skip"
  ELSE IF aln.missing THEN "skip"
  ELSE IF aln.unmapped THEN "skip"
  ELSE IF Abs(aln.pos - 1) > pos_thres THEN "skip"
  ELSE IF aln.nm = Nothing /\ aln.seq_has_N /\ allow_no_nm_if_ns THEN "skip"
  ELSE IF aln.nm = Nothing THEN "raise"
  ELSE IF aln.nm[1] > dist_thres THEN "skip"
  ELSE "yield"

\* filter_alignment (lines 268-317) on one alignment: "skip", "yield" or "raise".
filter_alignment(aln, pos_thres, mapq_thres, dist_thres, allow_no_nm_if_ns) ==
  IF aln.star THEN "skip"
  ELSE IF aln.qname = aln.rname THEN "skip"
  ELSE IF aln.missing THEN "skip"
  ELSE IF aln.unmapped THEN "skip"
  ELSE IF Abs(aln.pos - 1) > pos_thres THEN "skip"
  ELSE IF aln.mapq < mapq_thres THEN "skip"
  ELSE IF aln.nm = Nothing /\ aln.seq_has_N /\ allow_no_nm_if_ns THEN "skip"
  ELSE IF aln.nm = Nothing THEN "raise"
  ELSE IF aln.nm[1] > dist_thres THEN "skip"
  ELSE "yield"

\* networkx.Graph: add_node, add_edge (lines 341-343).  An edge is the set of
\* its two ends.
EmptyGraph == [nodes |-> {}, edges |-> {}]

add_edge(g, u, v) == [nodes |-> g.nodes \cup {u, v}, edges |-> g.edges \cup {{u, v}}]

Neighbors(g, b) == {c \in g.nodes : c # b /\ {b, c} \in g.edges}

\* graph.degree(): a self loop counts twice.
degree(g, b) == Cardinality(Neighbors(g, b)) + (IF {b} \in g.edges THEN 2 ELSE 0)

RECURSIVE ReachFrom(_, _)
ReachFrom(g, S) ==
  LET S2 == S \cup UNION {Neighbors(g, b) : b \in S}
  IN IF S2 = S THEN S ELSE ReachFrom(g, S2)

\* networkx.connected_components (line 397).
connected_components(g) == {ReachFrom(g, {b}) : b \in g.nodes}

\* meta_graph.subgraph(nodes) (line 398).
subgraph(g, nodes) ==
  [nodes |-> nodes, edges |-> {e \in g.edges : e \subseteq nodes}]

\* A Python dict as a function; {} is the function of the empty domain.
EmptyDict == [x \in {} |-> Nothing]

DictPut(d, k, v) == [x \in (DOMAIN d) \cup {k} |-> IF x = k THEN v ELSE d[x]]

\* Lines 335-336 raise KeyError for a name the fasta pass did not map.
ReadAlignmentsRaises(names_to_barcodes, aln) ==
  aln.rname \notin DOMAIN names_to_barcodes \/ aln.qname \notin DOMAIN names_to_barcodes

\* read_alignments (lines 330-344): what one passing alignment does.
read_alignments_step(names_to_barcodes, g, rb, aln) ==
  LET rseq == names_to_barcodes[aln.rname]
      qseq == names_to_barcodes[aln.qname]
  IN [graph |-> add_edge(g, rseq, qseq),
      reversed_barcodes |-> IF aln.reversed THEN rb \cup {rseq, qseq} ELSE rb]

\* get_family_counts (lines 347-372).  A line of the families file is
\* <<barcode, order, rest>>; rest stands for the columns from the third on.
ZeroCounts == [k \in {"ab", "ba"} |-> 0]

WithAll(c) == [k \in {"ab", "ba", "all"} |-> IF k = "all" THEN c["ab"] + c["ba"] ELSE c[k]]

get_family_counts_init ==
  [family_counts |-> EmptyDict, last_barcode |-> None,
   this_family_counts |-> Nothing, read_pairs |-> 0]

get_family_counts_line(f, line) ==
  LET barcode == line[1]
      order == line[2]
      new == barcode # f.last_barcode
      closed == IF f.this_family_counts # Nothing
                  THEN Some(WithAll(f.this_family_counts[1]))
                  ELSE Nothing
      this1 == IF new THEN ZeroCounts ELSE f.this_family_counts[1]
  IN [f EXCEPT
        !.family_counts = IF new THEN DictPut(@, f.last_barcode, closed) ELSE @,
        !.last_barcode = barcode,
        !.this_family_counts = Some([this1 EXCEPT ![order] = @ + 1])]

\* Lines 369-370; line 369 raises TypeError when no line was counted.
GetFamilyCountsRaises(f) == f.this_family_counts = Nothing

get_family_counts_end(f) ==
  [f EXCEPT
     !.family_counts = DictPut(@, f.last_barcode, Some(WithAll(f.this_family_counts[1]))),
     !.this_family_counts = Some(WithAll(f.this_family_counts[1]))]

\* make_correction_table (lines 393-412).  key of line 401 or 405.
SortKey(choose_by, family_counts, sub) ==
  [bar \in sub.nodes |->
     IF choose_by = "count" THEN family_counts[bar][1]["all"] ELSE degree(sub, bar)]

\* family_counts[bar] of line 401 raises KeyError for a node without a family.
MakeCorrectionTableRaises(g, family_counts, choose_by) ==
  choose_by = "count" /\ \E bar \in g.nodes : bar \notin DOMAIN family_counts

SortedFirst_ascending(nodes, key) == {bar \in nodes : \A c \in nodes : key[bar] <= key[c]}

\* barcodes[0] of sorted(graph.nodes(), key=key, reverse=True) (lines 406-407):
\* the sort is stable and the order of graph.nodes() among equal keys is the
\* library's, so every node of the largest key can come first.
SortedFirst(nodes, key) == {bar \in nodes : \A c \in nodes : key[c] <= key[bar]}

ComponentOf(comps, bar) == CHOOSE c \in comps : bar \in c

CorrectionTable_unskipped(comps, correct) ==
  [barcode \in UNION comps |-> correct[ComponentOf(comps, barcode)]]

\* Lines 407-411 with correct[c] the barcodes[0] of component c.
CorrectionTable(comps, correct) ==
  [barcode \in {b \in UNION comps : b # correct[ComponentOf(comps, b)]} |->
     correct[ComponentOf(comps, barcode)]]

\* Every table make_correction_table can return.
make_correction_table(g, family_counts, choose_by) ==
  LET comps == connected_components(g)
      firsts == {correct \in [comps -> g.nodes] :
                   \A c \in comps :
                     correct[c] \in SortedFirst(c, SortKey(choose_by, family_counts, subgraph(g, c)))}
  IN {CorrectionTable(comps, correct) : correct \in firsts}

\* is_alignment_reversed (lines 486-499).  smith_waterman[b] is the score
\* swalign.smith_waterman(barcode1, b) returns: a function of its arguments.
is_alignment_reversed_or_equal(barcode1, barcode2, smith_waterman) ==
  smith_waterman[HalfSwap(barcode2)] >= smith_waterman[barcode2]

is_alignment_reversed(barcode1, barcode2, smith_waterman) ==
  smith_waterman[HalfSwap(barcode2)] > smith_waterman[barcode2]

Scores == 0..MaxScore

ScoreFunctions(barcode2) == [{barcode2, HalfSwap(barcode2)} -> Scores]

\* A pre-filter that would look up the raw barcode only.
CallsAligner_raw_only(fields, corrections, reversed) ==
  /\ fields[1] \in DOMAIN corrections
  /\ fields[1] \in reversed

\* Lines 449-456: whether the line gets as far as is_alignment_reversed.
CallsAligner(fields, corrections, reversed) ==
  /\ fields[1] \in DOMAIN corrections
  /\ (fields[1] \in reversed \/ corrections[fields[1]] \in reversed)

CorrectBarcode(fields, corrections) ==
  IF fields[1] \in DOMAIN corrections THEN corrections[fields[1]] ELSE fields[1]

CorrectOrder(fields, corrections, reversed, smith_waterman) ==
  IF /\ CallsAligner(fields, corrections, reversed)
     /\ is_alignment_reversed(fields[1], corrections[fields[1]], smith_waterman)
    THEN IF fields[2] = "ab" THEN "ba" ELSE "ab"
    ELSE fields[2]

CorrectedFields_uncorrected(fields, corrections, reversed, prepend, smith_waterman) ==
  IF prepend THEN <<fields[1], fields[2]>> \o fields ELSE fields

CorrectedFields_overwritten(fields, corrections, reversed, prepend, smith_waterman) ==
  [fields EXCEPT ![1] = CorrectBarcode(fields, corrections),
                 ![2] = CorrectOrder(fields, corrections, reversed, smith_waterman)]

\* Lines 428-476: the fields of one line after the rewrite.
CorrectedFields(fields, corrections, reversed, prepend, smith_waterman) ==
  LET correct_barcode == CorrectBarcode(fields, corrections)
      correct_order == CorrectOrder(fields, corrections, reversed, smith_waterman)
  IN IF prepend
       THEN <<correct_barcode, correct_order>> \o fields
       ELSE [fields EXCEPT ![1] = correct_barcode, ![2] = correct_order]

(***************************************************************************)
(* correct.py main() (lines 119-152) as a state machine.                   *)
(***************************************************************************)
Limits == {Nothing, Some(1)}

AllArgs ==
  [limit : Limits, choose_by : {"count", "connect"}, prepend : BOOLEAN,
   output : BOOLEAN, allow_no_nm_if_ns : BOOLEAN]

\* The defaults of --limit, --no-output and --allow-no-nm-if-ns (lines 53, 60, 69).
SideDefaults(a) == a.limit = Nothing /\ a.output /\ ~a.allow_no_nm_if_ns

OneSideFlag(a) ==
  Cardinality({f \in {"limit", "output", "allow_no_nm_if_ns"} :
                 CASE f = "limit" -> a.limit # Nothing
                   [] f = "output" -> ~a.output
                   [] OTHER -> a.allow_no_nm_if_ns}) = 1

\* The command lines run: every policy with and without --prepend, and each
\* of --limit, --no-output and --allow-no-nm-if-ns on its own.
Args ==
  {a \in AllArgs :
     \/ SideDefaults(a)
     \/ OneSideFlag(a) /\ a.choose_by = "count" /\ ~a.prepend}

\* The families file is sorted by barcode.
BarcodeRank(barcode) == CHOOSE i \in DOMAIN Reads : Reads[i] = barcode

FamilyLines(n) ==
  {<<barcode, order, n>> : <<barcode, order>> \in Barcodes \X Orders}

KeepsSorted(lines, line) ==
  IF lines = <<>> THEN TRUE
  ELSE BarcodeRank(lines[Len(lines)][1]) <= BarcodeRank(line[1])

InitCorrect ==
  /\ IdleGroup /\ IdleDuplex /\ IdleAlign /\ IdleSscs /\ IdleVote /\ IdleMain
  /\ cpc = "sam"
  /\ args \in Args
  /\ sam = [aln_num |-> 0, num_good_alignments |-> 0, aln |-> Nothing]
  /\ graph = EmptyGraph
  /\ reversed_barcodes = {}
  /\ families = <<>>
  /\ fam = get_family_counts_init
  /\ corr = EmptyDict
  /\ outp = [line_num |-> 0, printed |-> <<>>, last |-> Nothing]

\* One turn of the loop of filter_alignment and of its consumer read_alignments.
\* sam.aln is the loop's alignment, gone when the loop is left.
ReadAlignment ==
  /\ cpc = "sam"
  /\ sam.aln_num < MaxAlns
  /\ \E aln \in Alignments :
       LET verdict == filter_alignment(aln, PosThres, MapqThres, DistThres,
                                       args.allow_no_nm_if_ns)
           names_to_barcodes == map_names_to_barcodes(args.limit)
           passes == verdict = "yield" /\ ~ReadAlignmentsRaises(names_to_barcodes, aln)
           step == read_alignments_step(names_to_barcodes, graph, reversed_barcodes, aln)
       IN IF OverLimit(args.limit, sam.aln_num + 1)
            THEN /\ cpc' = "counts"
                 /\ sam' = [sam EXCEPT !.aln_num = @ + 1, !.aln = Nothing]
                 /\ UNCHANGED <<graph, reversed_barcodes>>
            ELSE /\ cpc' = IF verdict = "raise" \/ (verdict = "yield" /\ ~passes)
                              THEN "error" ELSE "sam"
                 /\ sam' = [aln_num |-> sam.aln_num + 1,
                            num_good_alignments |->
                              sam.num_good_alignments + (IF verdict = "yield" THEN 1 ELSE 0),
                            aln |-> Some(aln)]
                 /\ graph' = IF passes THEN step.graph ELSE graph
                 /\ reversed_barcodes' =
                      IF passes THEN step.reversed_barcodes ELSE reversed_barcodes
  /\ UNCHANGED <<args, families, fam, corr, outp, gvars, dvars, evars, wvars>>

\* The SAM stream ends.
AlignmentsEnd ==
  /\ cpc = "sam"
  /\ cpc' = "counts"
  /\ sam' = [sam EXCEPT !.aln = Nothing]
  /\ UNCHANGED <<args, graph, reversed_barcodes, families, fam, corr, outp, gvars, dvars, evars, wvars>>

\* Lines 369-372, reached at the end of the file or by the break of line 356.
FinishCounts(f) ==
  IF GetFamilyCountsRaises(f)
    THEN cpc' = "error" /\ fam' = f
    ELSE cpc' = "table" /\ fam' = get_family_counts_end(f)

\* A single pass over the families that would print each line, corrected with
\* the table as it stands, while it is counted.
CountLine_printing ==
  /\ cpc = "counts"
  /\ Len(families) < MaxFamLines
  /\ \E line \in FamilyLines(Len(families) + 1) :
       /\ KeepsSorted(families, line)
       /\ families' = Append(families, line)
       /\ outp' = [outp EXCEPT
                     !.printed = Append(@, CorrectedFields(line, corr, {}, args.prepend,
                                                           EmptyDict))]
       /\ LET f == [fam EXCEPT !.read_pairs = @ + 1]
          IN IF OverLimit(args.limit, f.read_pairs)
               THEN FinishCounts(f)
               ELSE cpc' = "counts" /\ fam' = get_family_counts_line(f, line)
  /\ UNCHANGED <<args, sam, graph, reversed_barcodes, corr, gvars, dvars, evars, wvars>>

\* One turn of the loop of get_family_counts.
CountLine ==
  /\ cpc = "counts"
  /\ Len(families) < MaxFamLines
  /\ \E line \in FamilyLines(Len(families) + 1) :
       /\ KeepsSorted(families, line)
       /\ families' = Append(families, line)
       /\ LET f == [fam EXCEPT !.read_pairs = @ + 1]
          IN IF OverLimit(args.limit, f.read_pairs)
               THEN FinishCounts(f)
               ELSE cpc' = "counts" /\ fam' = get_family_counts_line(f, line)
  /\ UNCHANGED <<args, sam, graph, reversed_barcodes, corr, outp, gvars, dvars, evars, wvars>>

\* The families file ends.
CountEnd ==
  /\ cpc = "counts"
  /\ FinishCounts(fam)
  /\ UNCHANGED <<args, sam, graph, reversed_barcodes, families, corr, outp, gvars, dvars, evars, wvars>>

\* make_correction_table (line 146); --structures and --visualize are off.
MakeCorrectionTable ==
  /\ cpc = "table"
  /\ IF MakeCorrectionTableRaises(graph, fam.family_counts, args.choose_by)
       THEN cpc' = "error" /\ corr' = corr
       ELSE /\ cpc' = "print"
            /\ corr' \in make_correction_table(graph, fam.family_counts, args.choose_by)
  /\ UNCHANGED <<args, sam, graph, reversed_barcodes, families, fam, outp, gvars, dvars, evars, wvars>>

\* One turn of the loop of print_corrected_output over the reopened file.
PrintLine ==
  /\ cpc = "print"
  /\ outp.line_num < Len(families)
  /\ LET line == families[outp.line_num + 1]
         called == CallsAligner(line, corr, reversed_barcodes)
     IN IF OverLimit(args.limit, outp.line_num + 1)
          THEN cpc' = "done" /\ outp' = [outp EXCEPT !.line_num = @ + 1]
          ELSE /\ cpc' = "print"
               /\ \E smith_waterman \in
                       IF called THEN ScoreFunctions(corr[line[1]]) ELSE {EmptyDict} :
                    LET fields == CorrectedFields(line, corr, reversed_barcodes,
                                                  args.prepend, smith_waterman)
                    IN outp' = [line_num |-> outp.line_num + 1,
                                printed |-> IF args.output
                                              THEN Append(outp.printed, fields)
                                              ELSE outp.printed,
                                last |-> Some([raw_barcode |-> line[1],
                                               order |-> line[2],
                                               called |-> called,
                                               smith_waterman |-> smith_waterman,
                                               fields |-> fields])]
  /\ UNCHANGED <<args, sam, graph, reversed_barcodes, families, fam, corr, gvars, dvars, evars, wvars>>

\* The reopened families file ends.
PrintEnd ==
  /\ cpc = "print"
  /\ outp.line_num = Len(families)
  /\ cpc' = "done"
  /\ UNCHANGED <<args, sam, graph, reversed_barcodes, families, fam, corr, outp, gvars, dvars, evars, wvars>>

NextCorrect ==
  \/ ReadAlignment
  \/ AlignmentsEnd
  \/ CountLine
  \/ CountEnd
  \/ MakeCorrectionTable
  \/ PrintLine
  \/ PrintEnd

SpecCorrect == InitCorrect /\ [][NextCorrect]_vars

(***************************************************************************)
(* Claims about correct.py.                                                *)
(***************************************************************************)
TableBuilt == cpc \in {"print", "done"}

\* Connectivity stated on its own: b and c are joined by a path of at most
\* three edges (the graph has at most four nodes).
Joined(b, c) ==
  \/ b = c
  \/ {b, c} \in graph.edges
  \/ \E x \in graph.nodes : {b, x} \in graph.edges /\ {x, c} \in graph.edges
  \/ \E x, y \in graph.nodes :
       {b, x} \in graph.edges /\ {x, y} \in graph.edges /\ {y, c} \in graph.edges

Component(b) == {c \in graph.nodes : Joined(b, c)}

Components == {Component(b) : b \in graph.nodes}

Canonicals(comp) == comp \ DOMAIN corr

\* C3: once make_correction_table has returned, every connected component of
\* the barcode graph has exactly one member that is not a key of the
\* correction map, every other member is a key mapped to that member (so a
\* key and its value share a component), and no barcode outside the graph is
\* a key; under both policies, ties included.
C3_OneCanonicalPerComponent ==
  TableBuilt =>
    /\ \A comp \in Components :
         /\ Cardinality(Canonicals(comp)) = 1
         /\ \A b \in comp \ Canonicals(comp) : corr[b] \in Canonicals(comp)
    /\ \A b \in DOMAIN corr : b \in graph.nodes /\ corr[b] \in Component(b)

CountOf(b) == fam.family_counts[b][1]["ab"] + fam.family_counts[b][1]["ba"]

DegreeOf(b) == Cardinality({e \in graph.edges : b \in e})

ScoringKey(b) == IF args.choose_by = "count" THEN CountOf(b) ELSE DegreeOf(b)

\* A component of three barcodes whose members all have the same count.
C3_Witness ==
  /\ cpc = "print"
  /\ args.choose_by = "count"
  /\ \E comp \in Components :
       /\ Cardinality(comp) = 3
       /\ \A b, c \in comp : CountOf(b) = CountOf(c)
       /\ \A b \in comp \ Canonicals(comp) : corr[b] \in Canonicals(comp)

Recorrected(line) ==
  {CorrectedFields(line, corr, reversed_barcodes, FALSE, smith_waterman) :
     smith_waterman \in IF CallsAligner(line, corr, reversed_barcodes)
                          THEN ScoreFunctions(corr[line[1]])
                          ELSE {EmptyDict}}

\* C5: no value of the correction map is a key of it; so no printed line has
\* in its corrected barcode column a barcode the map would still correct, and
\* correcting the printed lines again changes neither barcode nor order.
C5_CorrectionIsIdempotent ==
  TableBuilt =>
    /\ \A b \in DOMAIN corr : corr[b] \notin DOMAIN corr
    /\ \A i \in DOMAIN outp.printed :
         /\ outp.printed[i][1] \notin DOMAIN corr
         /\ \A again \in Recorrected(outp.printed[i]) :
              again[1] = outp.printed[i][1] /\ again[2] = outp.printed[i][2]

\* A line whose barcode the map corrects has been printed.
C5_Witness ==
  /\ TableBuilt
  /\ \E i \in DOMAIN outp.printed :
       families[i][1] \in DOMAIN corr /\ outp.printed[i][1] # families[i][1]

\* The two scores of the last call of is_alignment_reversed and the order
\* column the line got.
LastCall == outp.last[1]

FwdScore == LastCall.smith_waterman[corr[LastCall.raw_barcode]]

RevScore == LastCall.smith_waterman[HalfSwap(corr[LastCall.raw_barcode])]

OrderFlipped == LastCall.fields[2] # LastCall.order

\* C6: a line's order is switched only when the raw barcode scores strictly
\* higher against the half-swapped canonical barcode than against the
\* canonical barcode itself; with equal scores, or a lower swapped score, the
\* order column stays as it was.
C6_ReversedOnlyWhenStrictlyBetter ==
  (outp # <<>> /\ outp.last # Nothing) =>
    IF LastCall.called
      THEN OrderFlipped <=> RevScore > FwdScore
      ELSE ~OrderFlipped

\* The two alignments, of different sequences, tie and the order is kept.
C6_Witness ==
  /\ outp # <<>> /\ outp.last # Nothing
  /\ LastCall.called
  /\ HalfSwap(corr[LastCall.raw_barcode]) # corr[LastCall.raw_barcode]
  /\ RevScore = FwdScore
  /\ ~OrderFlipped

\* The line last printed has a corrected barcode, and it or its canonical
\* barcode is in the reversed set.
Warranted ==
  /\ LastCall.raw_barcode \in DOMAIN corr
  /\ \/ LastCall.raw_barcode \in reversed_barcodes
     \/ corr[LastCall.raw_barcode] \in reversed_barcodes

\* C24: print_corrected_output switches the order of a line exactly when its
\* raw barcode is corrected, the raw or the canonical barcode is in the
\* reversed set and the rotated alignment scores strictly higher; otherwise
\* the order is printed as it was; and is_alignment_reversed is run for
\* exactly the lines that pass the two set lookups, for no other.
C24_OrderSwitchedOnlyWhenWarranted ==
  (outp # <<>> /\ outp.last # Nothing) =>
    /\ LastCall.called <=> Warranted
    /\ ~LastCall.called => LastCall.smith_waterman = EmptyDict
    /\ OrderFlipped <=> (Warranted /\ RevScore > FwdScore)
    /\ OrderFlipped => {LastCall.fields[2], LastCall.order} = Orders

\* A corrected line whose own barcode is not in the reversed set while its
\* canonical barcode is: the alignment was run and the order switched.
C24_Witness ==
  /\ outp # <<>> /\ outp.last # Nothing
  /\ LastCall.raw_barcode \in DOMAIN corr
  /\ LastCall.raw_barcode \notin reversed_barcodes
  /\ corr[LastCall.raw_barcode] \in reversed_barcodes
  /\ LastCall.called /\ OrderFlipped

\* A corrected line with neither barcode in the reversed set: no alignment.
C24_WitnessNoCall ==
  /\ outp # <<>> /\ outp.last # Nothing
  /\ LastCall.raw_barcode \in DOMAIN corr
  /\ ~LastCall.called

\* The alignment is mapped, of two different reads, within the tolerance of
\* the position, and of sufficient mapping quality and edit distance.
PassesFilters(a) ==
  /\ ~a.star /\ ~a.missing /\ ~a.unmapped
  /\ a.qname # a.rname
  /\ a.pos - 1 <= PosThres /\ 1 - a.pos <= PosThres
  /\ a.mapq >= MapqThres
  /\ a.nm # Nothing /\ a.nm[1] <= DistThres

\* C25: filter_alignment yields an alignment only if it is mapped, is not a
\* self-alignment, and has |POS - 1| <= the position tolerance, MAPQ >= the
\* MAPQ threshold and NM <= the distance threshold, and it yields every such
\* alignment; an alignment that is not yielded leaves the graph and the
\* reversed set as they are, and what the graph gains is the edge of the
\* two barcodes of a yielded alignment.
C25_OnlyPassingAlignmentsInGraph ==
  [][(cpc = "sam" /\ sam'.aln # Nothing) =>
       LET a == sam'.aln[1]
           yielded == sam'.num_good_alignments = sam.num_good_alignments + 1
       IN /\ yielded <=> PassesFilters(a)
          /\ ~yielded => /\ sam'.num_good_alignments = sam.num_good_alignments
                         /\ graph' = graph
                         /\ reversed_barcodes' = reversed_barcodes
          /\ graph'.nodes \subseteq graph.nodes \cup {Reads[a.qname], Reads[a.rname]}
          /\ graph'.edges \subseteq graph.edges \cup {{Reads[a.qname], Reads[a.rname]}}
          /\ reversed_barcodes' \subseteq
               reversed_barcodes \cup (IF a.reversed THEN {Reads[a.qname], Reads[a.rname]}
                                       ELSE {})]_vars

\* An alignment at the very edge of the position tolerance was yielded and
\* its edge is in the graph, which has no loop.
C25_Witness ==
  /\ cpc = "sam" /\ sam.aln # Nothing
  /\ sam.aln[1].pos = PosThres + 1
  /\ sam.num_good_alignments = 2
  /\ {Reads[sam.aln[1].qname], Reads[sam.aln[1].rname]} \in graph.edges
  /\ \A e \in graph.edges : Cardinality(e) = 2

\* The number of turns of the loop that got as far as the print of line 476.
LinesProcessed ==
  IF OverLimit(args.limit, outp.line_num) THEN args.limit[1] ELSE outp.line_num

CountsRead == fam.last_barcode # None /\ fam.last_barcode \in DOMAIN fam.family_counts

OutputStarted == outp # [line_num |-> 0, printed |-> <<>>, last |-> Nothing]

\* C20: correct.py prints its first line only after the alignments were read
\* into the graph, the count table was read and the correction table was
\* built from the two for every component; a step of the output pass changes
\* neither of them, and from the start of the output pass on the correction
\* table and the set of reversed barcodes stay as they are.
C20_OutputAfterTable ==
  /\ [](OutputStarted =>
         /\ TableBuilt
         /\ CountsRead
         /\ corr \in make_correction_table(graph, fam.family_counts, args.choose_by))
  /\ [][outp' # outp =>
          /\ cpc = "print"
          /\ <<sam, graph, reversed_barcodes, families, fam, corr>>' =
               <<sam, graph, reversed_barcodes, families, fam, corr>>]_vars
  /\ [][TableBuilt => corr' = corr /\ reversed_barcodes' = reversed_barcodes]_vars

\* The output pass is under way with a table that corrects a barcode and a
\* reversed alignment on record, and it has printed a corrected line.
C20_Witness ==
  /\ cpc = "print"
  /\ DOMAIN corr # {} /\ reversed_barcodes # {}
  /\ sam.aln_num >= 2 /\ Len(families) >= 2
  /\ \E i \in DOMAIN outp.printed : outp.printed[i][1] # families[i][1]

\* The lines of the families file with the barcode and the order.
LinesOfOrder(barcode, order) ==
  Cardinality({i \in DOMAIN families : families[i][1] = barcode /\ families[i][2] = order})

FileBarcodes == {families[i][1] : i \in DOMAIN families}

\* C26: after get_family_counts has read a non-empty families file, sorted by
\* barcode and read to its end, the count table has an entry for each
\* barcode of the file and for nothing else, with the numbers of its ab and
\* ba lines and their sum.
C26_CountTableIsExact ==
  (CountsRead /\ args.limit = Nothing /\ families # <<>>) =>
    /\ DOMAIN fam.family_counts = FileBarcodes
    /\ \A barcode \in FileBarcodes :
         /\ fam.family_counts[barcode] # Nothing
         /\ fam.family_counts[barcode][1]["ab"] = LinesOfOrder(barcode, "ab")
         /\ fam.family_counts[barcode][1]["ba"] = LinesOfOrder(barcode, "ba")
         /\ fam.family_counts[barcode][1]["all"] =
              LinesOfOrder(barcode, "ab") + LinesOfOrder(barcode, "ba")

\* The same without "and for nothing else": what the table holds for the
\* barcodes of the file.
CountTableCoversFile ==
  (CountsRead /\ args.limit = Nothing /\ families # <<>>) =>
    /\ FileBarcodes \subseteq DOMAIN fam.family_counts
    /\ DOMAIN fam.family_counts \ FileBarcodes = {None}
    /\ fam.family_counts[None] = Nothing
    /\ \A barcode \in FileBarcodes :
         /\ fam.family_counts[barcode] # Nothing
         /\ fam.family_counts[barcode][1]["ab"] = LinesOfOrder(barcode, "ab")
         /\ fam.family_counts[barcode][1]["ba"] = LinesOfOrder(barcode, "ba")
         /\ fam.family_counts[barcode][1]["all"] =
              LinesOfOrder(barcode, "ab") + LinesOfOrder(barcode, "ba")

(***************************************************************************)
(* make-consensi.py: process_duplex() and process_result().                *)
(***************************************************************************)
Gap == "-"

Bases == {"A", "C", "G", "T"}

\* The consensus module is not part of src/.  get_consensus is taken as
\* returning any sequence; build_consensus_duplex_simple follows the rules of
\* DESCRIPTION (lines 38-40) and of the specification: equal bases give the
\* base, N with anything and a gap with a base give N, two different bases
\* give the IUPAC code of the two.
IUPAC(b1, b2) ==
  CASE {b1, b2} = {"A", "C"} -> "M"
    [] {b1, b2} = {"A", "G"} -> "R"
    [] {b1, b2} = {"A", "T"} -> "W"
    [] {b1, b2} = {"C", "G"} -> "S"
    [] {b1, b2} = {"C", "T"} -> "Y"
    [] {b1, b2} = {"G", "T"} -> "K"

MergeColumn(b1, b2) ==
  IF b1 = "N" \/ b2 = "N" THEN "N"
  ELSE IF b1 = Gap \/ b2 = Gap THEN "N"
  ELSE IF b1 = b2 THEN b1
  ELSE IUPAC(b1, b2)

build_consensus_duplex_simple(target, query) ==
  [i \in 1..Len(target) |-> MergeColumn(target[i], query[i])]

\* All sequences over an alphabet up to a length.
SeqsUpTo(alphabet, n) == UNION {[1..k -> alphabet] : k \in 0..n}

\* The bases the consensuses of a duplex are made of.
DuplexBases == {"A", "T"}

ConsensusSeqs == SeqsUpTo(DuplexBases, MaxSeqLen)

\* A family of n reads.
FamilyOf(n) == [i \in 1..n |-> i]

\* The keys of a duplex in the order of the sorted input of process_families.
DuplexKeys == <<<<"ab", 0>>, <<"ab", 1>>, <<"ba", 0>>, <<"ba", 1>>>>

\* The duplex process_families builds from families of sizes[i] reads; size 0
\* is an absent family.
DuplexOf(sizes) ==
  LET present == SelectSeq([i \in DOMAIN DuplexKeys |-> i], LAMBDA i : sizes[i] > 0)
  IN [j \in DOMAIN present |->
        [k |-> DuplexKeys[present[j]], v |-> FamilyOf(sizes[present[j]])]]

Duplexes == {DuplexOf(sizes) : sizes \in [DOMAIN DuplexKeys -> 0..MaxReads]}

\* make_sscss and make_sscs (lines 369-390); consensus_seq[key] is what
\* consensus.get_consensus returns for the family of the key.
SscsKeys(duplex, min_reads) ==
  {key \in ODKeys(duplex) : ~(Len(ODGet(duplex, key)) < min_reads)}

make_sscss(duplex, min_reads, consensus_seq) ==
  [key \in SscsKeys(duplex, min_reads) |->
     [seq |-> consensus_seq[key], order |-> key[1], mate |-> key[2],
      nreads |-> Len(ODGet(duplex, key))]]

ordermates_same_mate(duplex_mate) ==
  IF duplex_mate = 0 THEN <<<<"ab", 0>>, <<"ba", 0>>>> ELSE <<<<"ab", 1>>, <<"ba", 1>>>>

\* ordermates (lines 397-400).
ordermates(duplex_mate) ==
  IF duplex_mate = 0 THEN <<<<"ab", 0>>, <<"ba", 1>>>> ELSE <<<<"ab", 1>>, <<"ba", 0>>>>

\* sscs_pair (lines 406-410): "if sscs" holds for every SSCS there is, a
\* dict with four keys.
SscsPair(sscss, duplex_mate) ==
  LET found == SelectSeq(ordermates(duplex_mate), LAMBDA om : om \in DOMAIN sscss)
  IN [i \in DOMAIN found |-> sscss[found[i]]]

\* The pairwise aligners (swalign, pair_align) are not part of src/.  An
\* alignment is two rows of equal length without a column of two gaps, each
\* row a stretch of its sequence with gaps put in, and with the unaligned
\* ends trimmed (lines 418-422).
Degap(row) == SelectSeq(row, LAMBDA c : c # Gap)

IsInfix(s, t) == \E i \in 0..(Len(t) - Len(s)) : SubSeq(t, i + 1, i + Len(s)) = s

AlignmentRows == SeqsUpTo(DuplexBases \cup {Gap}, 2 * MaxSeqLen)

IsAlignment(a, seq1, seq2) ==
  /\ Len(a.target) = Len(a.query)
  /\ \A i \in DOMAIN a.target : ~(a.target[i] = Gap /\ a.query[i] = Gap)
  /\ IsInfix(Degap(a.target), seq1)
  /\ IsInfix(Degap(a.query), seq2)
  /\ \A i \in {1, Len(a.target)} \cap DOMAIN a.target :
       a.target[i] # Gap /\ a.query[i] # Gap

\* Rows of different lengths: what the assertion of lines 427-430 is there for.
BrokenAlignment == [target |-> <<Gap>>, query |-> <<>>]

\* What the aligner can return for a pair: an alignment, a broken one, or
\* None from pair_align.
AlignerOutcomes(aligner, seq1, seq2) ==
  {Some(a) : a \in {x \in [target : AlignmentRows, query : AlignmentRows] :
                      IsAlignment(x, seq1, seq2)} \cup {BrokenAlignment}}
    \cup (IF aligner = "biopython" THEN {Nothing} ELSE {})

\* Lines 431-433.
DcsSeq_target(align) == align.target

DcsSeq(align) == build_consensus_duplex_simple(align.target, align.query)

Dcs(sscs_pair, align) ==
  [seq |-> DcsSeq(align), nreads |-> [i \in DOMAIN sscs_pair |-> sscs_pair[i].nreads]]

\* A make_dcss that would pass a lone SSCS on as the duplex consensus.
DuplexMate_fallback(sscss, aligner, align, duplex_mate) ==
  LET sscs_pair == SscsPair(sscss, duplex_mate)
  IN IF Len(sscs_pair) = 0 THEN [exit |-> "return"]
     ELSE IF Len(sscs_pair) = 1
       THEN [exit |-> "append",
             dcs |-> [seq |-> sscs_pair[1].seq, nreads |-> <<sscs_pair[1].nreads>>]]
     ELSE IF align = Nothing THEN [exit |-> "return"]
     ELSE IF Len(align[1].target) # Len(align[1].query) THEN [exit |-> "raise"]
     ELSE [exit |-> "append", dcs |-> Dcs(sscs_pair, align[1])]

\* A make_dcss that would give up the duplex, as it does for a missing
\* alignment, when the rows of the alignment differ in length.
DuplexMate_masked(sscss, aligner, align, duplex_mate) ==
  LET sscs_pair == SscsPair(sscss, duplex_mate)
  IN IF Len(sscs_pair) < 2 THEN [exit |-> "return"]
     ELSE IF aligner = "biopython" /\ align = Nothing THEN [exit |-> "return"]
     ELSE IF Len(align[1].target) # Len(align[1].query) THEN [exit |-> "return"]
     ELSE [exit |-> "append", dcs |-> Dcs(sscs_pair, align[1])]

\* One turn of "for duplex_mate in 0, 1" (lines 404-433); align is what the
\* aligner returns if it is called.
DuplexMate(sscss, aligner, align, duplex_mate) ==
  LET sscs_pair == SscsPair(sscss, duplex_mate)
  IN IF Len(sscs_pair) < 2 THEN [exit |-> "return"]
     ELSE IF aligner = "biopython" /\ align = Nothing THEN [exit |-> "return"]
     ELSE IF Len(align[1].target) # Len(align[1].query) THEN [exit |-> "raise"]
     ELSE [exit |-> "append", dcs |-> Dcs(sscs_pair, align[1])]

\* make_dcss (lines 393-435): [raised, dcss].
make_dcss(sscss, aligner, aligns) ==
  LET turn0 == DuplexMate(sscss, aligner, aligns[0], 0)
      turn1 == DuplexMate(sscss, aligner, aligns[1], 1)
  IN IF turn0.exit = "raise" THEN [raised |-> TRUE, dcss |-> <<>>]
     ELSE IF turn0.exit = "return" THEN [raised |-> FALSE, dcss |-> <<>>]
     ELSE IF turn1.exit = "raise" THEN [raised |-> TRUE, dcss |-> <<>>]
     ELSE IF turn1.exit = "return" THEN [raised |-> FALSE, dcss |-> <<>>]
     ELSE [raised |-> FALSE, dcss |-> <<turn0.dcs, turn1.dcs>>]

\* format_outputs (lines 438-473) with output_qual None.  A FASTA string
\* ">{bar}.{order} {nreads}\n{seq}\n" is the record of what it is made of.
\* A pair of strings that would keep a consensus that is empty.
SscsStrPair_unfiltered(sscss, barcode, order) ==
  LET mates == SelectSeq(<<0, 1>>, LAMBDA mate : <<order, mate>> \in DOMAIN sscss)
  IN [i \in DOMAIN mates |->
        [bar |-> barcode, order |-> order,
         nreads |-> sscss[<<order, mates[i]>>].nreads,
         seq |-> sscss[<<order, mates[i]>>].seq]]

SscsStrPair(sscss, barcode, order) ==
  LET mates == SelectSeq(<<0, 1>>,
                         LAMBDA mate : /\ <<order, mate>> \in DOMAIN sscss
                                       /\ sscss[<<order, mate>>].seq # <<>>)
  IN [i \in DOMAIN mates |->
        [bar |-> barcode, order |-> order,
         nreads |-> sscss[<<order, mates[i]>>].nreads,
         seq |-> sscss[<<order, mates[i]>>].seq]]

\* A format_outputs that would write the duplex records as soon as one of
\* the two sequences is not empty.
format_outputs_any(dcss, sscss, barcode) ==
  [sscs_strs |->
     [order \in {o \in Orders : Len(SscsStrPair(sscss, barcode, o)) = 2} |->
        SscsStrPair(sscss, barcode, order)],
   dcs_strs |->
     IF dcss # <<>> /\ \E i \in DOMAIN dcss : dcss[i].seq # <<>>
       THEN [i \in DOMAIN dcss |->
               [bar |-> barcode, nreads |-> dcss[i].nreads, seq |-> dcss[i].seq]]
       ELSE <<>>]

format_outputs(dcss, sscss, barcode) ==
  [sscs_strs |->
     [order \in {o \in Orders : Len(SscsStrPair(sscss, barcode, o)) = 2} |->
        SscsStrPair(sscss, barcode, order)],
   dcs_strs |->
     IF dcss # <<>> /\ \A i \in DOMAIN dcss : dcss[i].seq # <<>>
       THEN [i \in DOMAIN dcss |->
               [bar |-> barcode, nreads |-> dcss[i].nreads, seq |-> dcss[i].seq]]
       ELSE <<>>]

\* Lines 360-365 of process_duplex.
RunStats(duplex, sscss) ==
  LET total_reads == IF duplex = <<>> THEN 0
                     ELSE LET RECURSIVE Sum(_)
                              Sum(i) == IF i = 0 THEN 0 ELSE Len(duplex[i].v) + Sum(i - 1)
                          IN Sum(Len(duplex))
  IN IF DOMAIN sscss # {}
       THEN [runs |-> 1, reads |-> total_reads]
       ELSE [runs |-> 0, reads |-> 0]

\* process_duplex (lines 338-366).  The AssertionError of make_dcss is logged
\* and raised again (lines 353-355): the call returns nothing.
process_duplex(duplex, barcode, min_reads, aligner, consensus_seq, aligns) ==
  LET sscss == make_sscss(duplex, min_reads, consensus_seq)
      made == make_dcss(sscss, aligner, aligns)
      strs == format_outputs(made.dcss, sscss, barcode)
  IN IF made.raised
       THEN [raised |-> TRUE, exc |-> "AssertionError"]
       ELSE [raised |-> FALSE, sscss |-> sscss, dcss |-> made.dcss,
             dcs_strs |-> strs.dcs_strs, sscs_strs |-> strs.sscs_strs,
             run_stats |-> RunStats(duplex, sscss)]

\* The calls of the aligner make_dcss gets to: one for each duplex mate that
\* has its two SSCSs, none for mate 1 if the turn of mate 0 returned.
AlignsOf(sscss, aligner) ==
  LET pair0 == SscsPair(sscss, 0)
      pair1 == SscsPair(sscss, 1)
      outcomes0 == IF Len(pair0) < 2 THEN {Nothing}
                   ELSE AlignerOutcomes(aligner, pair0[1].seq, pair0[2].seq)
      outcomes1 == IF Len(pair1) < 2 THEN {Nothing}
                   ELSE AlignerOutcomes(aligner, pair1[1].seq, pair1[2].seq)
  IN UNION {{[duplex_mate \in {0, 1} |-> IF duplex_mate = 0 THEN align0 ELSE align1] :
               align1 \in IF DuplexMate(sscss, aligner, align0, 0).exit = "append"
                            THEN outcomes1 ELSE {Nothing}} :
              align0 \in outcomes0}

\* process_result (lines 476-493): what is appended to the four output files.
Written(strs, present) == IF present THEN strs ELSE <<>>

process_result(result, filehandles, files, stats) ==
  LET SscsOf(order, mate) ==
        IF order \in DOMAIN result.sscs_strs
          THEN Written(<<result.sscs_strs[order][mate + 1]>>, filehandles.sscs[mate + 1])
          ELSE <<>>
      DcsOf(duplex_mate) ==
        IF result.dcs_strs # <<>>
          THEN Written(<<result.dcs_strs[duplex_mate + 1]>>, filehandles.dcs[duplex_mate + 1])
          ELSE <<>>
  IN [files |->
        [sscs |-> [i \in {1, 2} |-> files.sscs[i] \o SscsOf("ab", i - 1) \o SscsOf("ba", i - 1)],
         dcs |-> [i \in {1, 2} |-> files.dcs[i] \o DcsOf(i - 1)]],
      stats |-> [runs |-> stats.runs + result.run_stats.runs,
                 reads |-> stats.reads + result.run_stats.reads]]

\* The output files given on the command line (at least one, line 195).
Filehandles ==
  {[dcs |-> <<TRUE, TRUE>>, sscs |-> <<TRUE, TRUE>>],
   [dcs |-> <<TRUE, FALSE>>, sscs |-> <<FALSE, FALSE>>],
   [dcs |-> <<FALSE, FALSE>>, sscs |-> <<FALSE, TRUE>>]}

InitDuplex ==
  /\ IdleGroup /\ IdleCorrect /\ IdleAlign /\ IdleSscs /\ IdleVote /\ IdleMain
  /\ mpc = "idle" /\ mrg = <<>>
  /\ dpc = "submitted"
  /\ \E duplex \in Duplexes, min_reads \in 1..DefaultMinReads,
        aligner \in {"swalign", "biopython"}, filehandles \in Filehandles :
       dup = [duplex |-> duplex,
              barcode |-> IF duplex = <<>> THEN None ELSE "AC",
              min_reads |-> min_reads, aligner |-> aligner, filehandles |-> filehandles,
              consensus_seq |-> <<>>, aligns |-> <<>>, result |-> <<>>,
              files |-> [sscs |-> <<<<>>, <<>>>>, dcs |-> <<<<>>, <<>>>>],
              stats |-> [runs |-> 0, reads |-> 0]]

\* The worker runs process_duplex on the unit.
ProcessDuplex ==
  /\ dpc = "submitted"
  /\ \E consensus_seq \in [SscsKeys(dup.duplex, dup.min_reads) -> ConsensusSeqs] :
       \E aligns \in AlignsOf(make_sscss(dup.duplex, dup.min_reads, consensus_seq),
                              dup.aligner) :
         LET result == process_duplex(dup.duplex, dup.barcode, dup.min_reads, dup.aligner,
                                      consensus_seq, aligns)
         IN /\ dup' = [dup EXCEPT !.consensus_seq = consensus_seq, !.aligns = aligns,
                                  !.result = result]
            /\ dpc' = IF result.raised THEN "error" ELSE "result"
  /\ UNCHANGED <<mpc, mrg, gvars, cvars, evars, wvars>>

\* The callback process_result writes the result.
ProcessResult ==
  /\ dpc = "result"
  /\ LET done == process_result(dup.result, dup.filehandles, dup.files, dup.stats)
     IN dup' = [dup EXCEPT !.files = done.files, !.stats = done.stats]
  /\ dpc' = "written"
  /\ UNCHANGED <<mpc, mrg, gvars, cvars, evars, wvars>>

NextDuplex == ProcessDuplex \/ ProcessResult

SpecDuplex == InitDuplex /\ [][NextDuplex]_vars

(***************************************************************************)
(* Claims about process_duplex.                                            *)
(***************************************************************************)
DuplexProcessed == dpc \in {"result", "written"}

\* The two parents of a duplex mate: the ab family of the same mate and the
\* ba family of the other mate.
AbParent(duplex_mate) == <<"ab", duplex_mate>>

BaParent(duplex_mate) == <<"ba", 1 - duplex_mate>>

FamilySize(key) == IF ODHas(dup.duplex, key) THEN Len(ODGet(dup.duplex, key)) ELSE 0

\* The family has a single-strand consensus and it is not empty.
HasSscs(key) ==
  /\ FamilySize(key) >= dup.min_reads
  /\ FamilySize(key) > 0
  /\ dup.consensus_seq[key] # <<>>

\* A duplex consensus was made or written for the duplex mate.
DcsProduced(duplex_mate) ==
  \/ dup.result.dcs_strs # <<>>
  \/ dup.files.dcs[duplex_mate + 1] # <<>>

C9_DuplexParentsAndCounts ==
  DuplexProcessed =>
    \A duplex_mate \in {0, 1} :
      (dup.result.dcs_strs # <<>>) =>
        LET dcs == dup.result.dcs_strs[duplex_mate + 1]
            align == dup.aligns[duplex_mate][1]
        IN /\ dcs.nreads = <<FamilySize(AbParent(duplex_mate)),
                             FamilySize(BaParent(duplex_mate))>>
           /\ IsAlignment(align, dup.consensus_seq[AbParent(duplex_mate)],
                          dup.consensus_seq[BaParent(duplex_mate)])
           /\ dcs.seq = build_consensus_duplex_simple(align.target, align.query)
           /\ dup.files.dcs[duplex_mate + 1] \in {<<>>, <<dcs>>}

\* Both duplex consensuses were written, with different counts for the two
\* strands and different consensuses for the four families' mates.
C9_Witness ==
  /\ dpc = "written"
  /\ dup.files.dcs[1] # <<>> /\ dup.files.dcs[2] # <<>>
  /\ dup.files.dcs[1][1].nreads = <<2, 1>>
  /\ dup.files.dcs[2][1].nreads = <<1, 2>>
  /\ dup.consensus_seq[<<"ab", 0>>] # dup.consensus_seq[<<"ab", 1>>]

\* make_dcss has the two single-strand consensuses of the duplex mate and an
\* alignment of them.
DcsFormed(duplex_mate) ==
  /\ FamilySize(AbParent(duplex_mate)) >= dup.min_reads
  /\ FamilySize(AbParent(duplex_mate)) > 0
  /\ FamilySize(BaParent(duplex_mate)) >= dup.min_reads
  /\ FamilySize(BaParent(duplex_mate)) > 0
  /\ dup.aligns[duplex_mate] # Nothing

DcsEmpty(duplex_mate) == Len(dup.aligns[duplex_mate][1].target) = 0

SscsWritten(order, i) == SelectSeq(dup.files.sscs[i], LAMBDA rec : rec.order = order)

\* C30: single-strand consensus records are made in mate pairs: an order has
\* its two records exactly when both of its mates have a consensus that is
\* not empty, and none otherwise; each open file gets the record of its
\* mate, so a record goes to the file of mate 1 if and only if one goes to
\* the file of mate 2 when both are open, and the two hold equally many.
C30_SscsRecordsInPairs ==
  DuplexProcessed =>
    /\ \A order \in Orders :
         /\ order \in DOMAIN dup.result.sscs_strs
              <=> (HasSscs(<<order, 0>>) /\ HasSscs(<<order, 1>>))
         /\ order \in DOMAIN dup.result.sscs_strs =>
              /\ Len(dup.result.sscs_strs[order]) = 2
              /\ \A mate \in {0, 1} :
                   dup.result.sscs_strs[order][mate + 1].seq = dup.consensus_seq[<<order, mate>>]
         /\ dpc = "written" =>
              \A i \in {1, 2} :
                SscsWritten(order, i) =
                  IF dup.filehandles.sscs[i] /\ order \in DOMAIN dup.result.sscs_strs
                    THEN <<dup.result.sscs_strs[order][i]>> ELSE <<>>
    /\ (dup.filehandles.sscs = <<TRUE, TRUE>>)
         => Len(dup.files.sscs[1]) = Len(dup.files.sscs[2])

\* Strand ab has a consensus for both mates, strand ba for mate 0 only (that
\* of its mate 1 is empty); each of the two open files got the one record of
\* strand ab.
C30_Witness ==
  /\ dpc = "written"
  /\ dup.filehandles.sscs = <<TRUE, TRUE>>
  /\ HasSscs(<<"ab", 0>>) /\ HasSscs(<<"ab", 1>>)
  /\ HasSscs(<<"ba", 0>>) /\ ~HasSscs(<<"ba", 1>>)
  /\ FamilySize(<<"ba", 1>>) >= dup.min_reads
  /\ Len(dup.files.sscs[1]) = 1 /\ Len(dup.files.sscs[2]) = 1

\* The aligner was called for the duplex mate and returned two rows of
\* different lengths.
BrokenCall(duplex_mate) ==
  /\ dup.aligns[duplex_mate] # Nothing
  /\ Len(dup.aligns[duplex_mate][1].target) # Len(dup.aligns[duplex_mate][1].query)

NothingWritten ==
  /\ dup.files = [sscs |-> <<<<>>, <<>>>>, dcs |-> <<<<>>, <<>>>>]
  /\ dup.stats = [runs |-> 0, reads |-> 0]

\* C13: when the pairwise aligner returns a target and a query of different
\* lengths, make_dcss raises and the AssertionError leaves process_duplex:
\* the call returns no output strings and no statistics, nothing of the
\* barcode is written or counted.
C13_UnequalRowsAreFatal ==
  dpc # "submitted" =>
    /\ (\E duplex_mate \in {0, 1} : BrokenCall(duplex_mate)) => dpc = "error"
    /\ dpc = "error" =>
         /\ dup.result = [raised |-> TRUE, exc |-> "AssertionError"]
         /\ NothingWritten

\* The alignment of duplex mate 0 was sound, that of mate 1 was not, and the
\* call ended with the AssertionError although all four families had
\* consensuses.
C13_Witness ==
  /\ dpc = "error"
  /\ ~BrokenCall(0) /\ BrokenCall(1)
  /\ DOMAIN make_sscss(dup.duplex, dup.min_reads, dup.consensus_seq) = Range(DuplexKeys)

(***************************************************************************)
(* The duplex merge of make_dcss (lines 427-431) on alignments over the    *)
(* whole alphabet of a consensus: the four bases, N and the gap.           *)
(***************************************************************************)
MergeAlphabet == Bases \cup {"N", Gap}

\* The columns of an alignment: never two gaps, and no gap in the first and
\* in the last column, the ends being trimmed.
Columns == {c \in MergeAlphabet \X MergeAlphabet : ~(c[1] = Gap /\ c[2] = Gap)}

EndColumns == {c \in Columns : c[1] # Gap /\ c[2] # Gap}

AlignmentOf(cols) ==
  [target |-> [i \in DOMAIN cols |-> cols[i][1]],
   query |-> [i \in DOMAIN cols |-> cols[i][2]]]

InitMerge ==
  /\ IdleGroup /\ IdleCorrect /\ IdleAlign /\ IdleSscs /\ IdleVote /\ IdleMain
  /\ dpc = "idle" /\ dup = <<>>
  /\ mpc = "aligned"
  /\ \/ \E n \in 1..MaxCols :
          \E cols \in [1..n -> Columns] :
            /\ cols[1] \in EndColumns /\ cols[n] \in EndColumns
            /\ mrg = [align |-> AlignmentOf(cols), dcs_seq |-> Nothing]
     \/ mrg = [align |-> BrokenAlignment, dcs_seq |-> Nothing]

\* Lines 427-431: the assertion on the lengths, then the merge.
MergeAlignment ==
  /\ mpc = "aligned"
  /\ IF Len(mrg.align.target) # Len(mrg.align.query)
       THEN mpc' = "error" /\ mrg' = mrg
       ELSE mpc' = "merged" /\ mrg' = [mrg EXCEPT !.dcs_seq = Some(DcsSeq(mrg.align))]
  /\ UNCHANGED <<dpc, dup, gvars, cvars, evars, wvars>>

NextMerge == MergeAlignment

SpecMerge == InitMerge /\ [][NextMerge]_vars

\* The two bases an IUPAC two-base code stands for.
CodeCovers(code) ==
  CASE code = "M" -> {"A", "C"}
    [] code = "R" -> {"A", "G"}
    [] code = "W" -> {"A", "T"}
    [] code = "S" -> {"C", "G"}
    [] code = "Y" -> {"C", "T"}
    [] code = "K" -> {"G", "T"}
    [] OTHER -> {}

\* C10: in every aligned column the duplex merge gives the base where both
\* rows have the same base, N where one row has a gap and the other a base,
\* N where either row has N, and the IUPAC code of the two bases where the
\* rows have different bases (A and T give W); swapping the rows gives the
\* same result.
C10_MergeRules ==
  (mpc = "merged") =>
    LET target == mrg.align.target
        query == mrg.align.query
        merged == mrg.dcs_seq[1]
    IN /\ Len(merged) = Len(target)
       /\ \A i \in DOMAIN target :
            /\ (target[i] \in Bases /\ query[i] = target[i]) => merged[i] = target[i]
            /\ ({target[i], query[i]} \cap Bases # {} /\ Gap \in {target[i], query[i]})
                 => merged[i] = "N"
            /\ ("N" \in {target[i], query[i]}) => merged[i] = "N"
            /\ (target[i] \in Bases /\ query[i] \in Bases /\ query[i] # target[i])
                 => CodeCovers(merged[i]) = {target[i], query[i]}
       /\ merged = DcsSeq([target |-> query, query |-> target])

\* An alignment with a column of A and T, merged to W, and a column of a gap
\* and a base, merged to N.
C10_Witness ==
  /\ mpc = "merged"
  /\ \E i, j \in DOMAIN mrg.align.target :
       /\ mrg.align.target[i] = "A" /\ mrg.align.query[i] = "T" /\ mrg.dcs_seq[1][i] = "W"
       /\ mrg.align.target[j] = Gap /\ mrg.align.query[j] \in Bases /\ mrg.dcs_seq[1][j] = "N"

(***************************************************************************)
(* align-families.py: process_duplex(), align_family(), make_msa(),        *)
(* format_msa() and process_result().  The names of process_duplex and     *)
(* process_result are taken by make-consensi.py above, so these two carry  *)
(* the prefix af_.                                                         *)
(***************************************************************************)
MaxPairs == 2      \* read pairs of one family handed to the aligner

\* A read pair is its number in the unit and the sequences of its two mates;
\* every base has the quality "I".
PairSeqs == {<<<<"A">>, <<"T">>>>, <<<<"T">>, <<"A">>>>}

FamilySeqs == UNION {[1..k -> PairSeqs] : k \in 1..MaxPairs}

OrderSeqs ==
  {os \in SeqsUpTo(LineOrders, 3) : os # <<>> /\ \A i, j \in DOMAIN os : i # j => os[i] # os[j]}

RECURSIVE Offset(_, _)
Offset(fams, i) == IF i = 1 THEN 0 ELSE Offset(fams, i - 1) + Len(fams[i - 1])

\* The duplex align_families builds from the families fams of the orders os.
AlignUnit(os, fams) ==
  [i \in DOMAIN os |->
     [k |-> os[i],
      v |-> [j \in DOMAIN fams[i] |-> [n |-> Offset(fams, i) + j, seqs |-> fams[i][j]]]]]

\* The duplex align_families submits for an input without records
\* (lines 264-267): {None: []}.
EmptyUnit == <<[k |-> None, v |-> <<>>]>>

Aligners == {"mafft", "kalign", "dummy"}

\* The alignments a multiple sequence aligner may give: the sequences as
\* they are, or the first one shifted against the others.
MsaAlignments(seqs) ==
  {seqs, [i \in DOMAIN seqs |-> IF i = 1 THEN seqs[i] \o <<Gap>> ELSE <<Gap>> \o seqs[i]]}

NotCalled == [exit |-> "not called", seqs |-> <<>>]

\* make_msa (lines 362-410): what the call may come to.  mafft is a
\* subprocess (OSError, CalledProcessError), kalign a module that may fail to
\* import; the dummy returns the sequences.
make_msa(seqs, aligner) ==
  CASE aligner = "dummy" -> {[exit |-> "return", seqs |-> seqs]}
    [] aligner = "mafft" ->
         {[exit |-> "OSError", seqs |-> <<>>], [exit |-> "CalledProcessError", seqs |-> <<>>]}
           \cup {[exit |-> "return", seqs |-> a] : a \in MsaAlignments(seqs)}
    [] aligner = "kalign" ->
         {[exit |-> "ImportError", seqs |-> <<>>]}
           \cup {[exit |-> "return", seqs |-> a] : a \in MsaAlignments(seqs)}

\* seqtools.transfer_gaps_multi (not part of src/): the quality string with a
\* space wherever the aligned sequence has a gap.
transfer_gaps(aligned_seq) == [i \in DOMAIN aligned_seq |-> IF aligned_seq[i] = Gap THEN " " ELSE "I"]

\* An align_family without the branch for a single read pair.
align_family_always_aligns(family, mate, outcome) ==
  IF Len(family) = 0 THEN [exit |-> "return", alignment |-> Nothing, called |-> FALSE]
  ELSE IF outcome.exit # "return"
    THEN [exit |-> outcome.exit, alignment |-> Nothing, called |-> TRUE]
  ELSE [exit |-> "return",
        alignment |-> Some([i \in DOMAIN family |->
                              [name |-> <<family[i].n, mate>>, seq |-> outcome.seqs[i],
                               qual |-> transfer_gaps(outcome.seqs[i])]]),
        called |-> TRUE]

\* align_family (lines 339-359); outcome is what make_msa comes to if it is
\* called.  called: whether it was.
align_family(family, mate, outcome) ==
  IF Len(family) = 0 THEN [exit |-> "return", alignment |-> Nothing, called |-> FALSE]
  ELSE IF Len(family) > 1 /\ outcome.exit # "return"
    THEN [exit |-> outcome.exit, alignment |-> Nothing, called |-> TRUE]
  ELSE LET aligned_seqs == IF Len(family) = 1 THEN <<family[1].seqs[mate]>> ELSE outcome.seqs
       IN [exit |-> "return",
           alignment |-> Some([i \in DOMAIN family |->
                                 [name |-> <<family[i].n, mate>>, seq |-> aligned_seqs[i],
                                  qual |-> transfer_gaps(aligned_seqs[i])]]),
           called |-> Len(family) > 1]

\* format_msa (lines 431-435): one line per read.
format_msa(align, barcode, order, mate) ==
  [i \in DOMAIN align |->
     [bar |-> barcode, order |-> order, mate |-> mate,
      name |-> align[i].name, seq |-> align[i].seq, qual |-> align[i].qual]]

\* Combos in the order of the strands, the two mates of one after the other.
Combos_by_strand(duplex) ==
  IF Len(duplex) = 1
    THEN <<<<1, duplex[1].k>>, <<2, duplex[1].k>>>>
    ELSE <<<<1, duplex[1].k>>, <<2, duplex[1].k>>, <<1, duplex[2].k>>, <<2, duplex[2].k>>>>

\* combos (lines 301-307) of a duplex of one or two orders.
Combos(duplex) ==
  IF Len(duplex) = 1
    THEN <<<<1, duplex[1].k>>, <<2, duplex[1].k>>>>
    ELSE <<<<1, duplex[1].k>>, <<2, duplex[2].k>>, <<2, duplex[1].k>>, <<1, duplex[2].k>>>>

ZeroRunStats == [runs |-> 0, aligned_pairs |-> 0, failures |-> 0]

\* A turn of the loop that would let an OSError of the aligner through.
AlignCombo_unguarded(duplex, barcode, outcome, combo, acc) ==
  LET family == ODGet(duplex, combo[2])
      aligned == align_family(family, combo[1], outcome)
      pairs == Len(family)
  IN IF aligned.exit # "return"
       THEN [acc EXCEPT !.exit = aligned.exit, !.turns = @ + 1]
       ELSE [exit |-> "return",
             output |-> acc.output \o format_msa(aligned.alignment[1], barcode, combo[2], combo[1]),
             run_stats |->
               [runs |-> acc.run_stats.runs + (IF pairs > 1 THEN 1 ELSE 0),
                aligned_pairs |-> acc.run_stats.aligned_pairs + (IF pairs > 1 THEN pairs ELSE 0),
                failures |-> acc.run_stats.failures],
             calls |-> acc.calls \o (IF aligned.called THEN <<combo>> ELSE <<>>),
             turns |-> acc.turns + 1]

\* One turn of "for mate, order in combos" (lines 310-335): an OSError or a
\* CalledProcessError of the aligner leaves alignment None, any other
\* exception goes on up.
AlignCombo(duplex, barcode, outcome, combo, acc) ==
  LET family == ODGet(duplex, combo[2])
      aligned == align_family(family, combo[1], outcome)
      caught == aligned.exit \in {"OSError", "CalledProcessError"}
      alignment == IF caught THEN Nothing ELSE aligned.alignment
      pairs == Len(family)
  IN IF aligned.exit # "return" /\ ~caught
       THEN [acc EXCEPT !.exit = aligned.exit, !.turns = @ + 1,
                        !.calls = @ \o (IF aligned.called THEN <<combo>> ELSE <<>>)]
       ELSE [exit |-> "return",
             output |-> IF alignment = Nothing THEN acc.output
                        ELSE acc.output \o format_msa(alignment[1], barcode, combo[2], combo[1]),
             run_stats |->
               [runs |-> acc.run_stats.runs + (IF pairs > 1 THEN 1 ELSE 0),
                aligned_pairs |-> acc.run_stats.aligned_pairs + (IF pairs > 1 THEN pairs ELSE 0),
                failures |-> acc.run_stats.failures + (IF alignment = Nothing THEN 1 ELSE 0)],
             calls |-> acc.calls \o (IF aligned.called THEN <<combo>> ELSE <<>>),
             turns |-> acc.turns + 1]

RECURSIVE AlignCombos(_, _, _, _, _)
AlignCombos(duplex, barcode, outcomes, i, acc) ==
  IF i > Len(Combos(duplex)) THEN acc
  ELSE LET step == AlignCombo(duplex, barcode, outcomes[i], Combos(duplex)[i], acc)
       IN IF step.exit # "return" THEN step
          ELSE AlignCombos(duplex, barcode, outcomes, i + 1, step)

\* process_duplex (lines 292-336): exit is "return" or the exception raised;
\* output and run_stats are what is returned; calls are the combos make_msa
\* was called for and turns the turns of the loop that were begun.
af_process_duplex(duplex, barcode, outcomes) ==
  IF Len(duplex) = 0 \/ ODHas(duplex, None)
    THEN [exit |-> "return", output |-> <<>>, run_stats |-> EmptyDict, calls |-> <<>>,
          turns |-> 0]
  ELSE IF Len(duplex) > 2
    THEN [exit |-> "AssertionError", output |-> <<>>, run_stats |-> ZeroRunStats,
          calls |-> <<>>, turns |-> 0]
  ELSE AlignCombos(duplex, barcode, outcomes, 1,
                   [exit |-> "return", output |-> <<>>, run_stats |-> ZeroRunStats,
                    calls |-> <<>>, turns |-> 0])

\* A process_result that would write the first line of the output where
\* the output begins and the rest where it ends.
af_process_result_split(result, stats, stdout) ==
  [stats |-> [key \in DOMAIN stats |->
                IF key \in DOMAIN result.run_stats THEN stats[key] + result.run_stats[key]
                ELSE stats[key]],
   stdout |-> IF result.output = <<>> THEN stdout
              ELSE <<Head(result.output)>> \o stdout \o Tail(result.output)]

\* process_result (lines 438-445).
af_process_result(result, stats, stdout) ==
  [stats |-> [key \in DOMAIN stats |->
                IF key \in DOMAIN result.run_stats THEN stats[key] + result.run_stats[key]
                ELSE stats[key]],
   stdout |-> stdout \o result.output]

\* The outcomes make_msa may have in the turns of the loop; the outcome of a
\* call that is not made is NotCalled.
OutcomesOf(duplex, aligner, i) ==
  IF Len(duplex) <= 2 /\ ~ODHas(duplex, None) /\ i <= Len(Combos(duplex))
    THEN LET family == ODGet(duplex, Combos(duplex)[i][2])
         IN make_msa([j \in DOMAIN family |-> family[j].seqs[Combos(duplex)[i][1]]], aligner)
    ELSE {NotCalled}

MadeCalls(duplex, result, outcomes) ==
  [i \in DOMAIN outcomes |->
     IF i <= result.turns /\ Combos(duplex)[i] \in Range(result.calls)
       THEN outcomes[i] ELSE NotCalled]

InitAlign ==
  /\ IdleGroup /\ IdleCorrect /\ IdleDuplex /\ IdleSscs /\ IdleVote /\ IdleMain
  /\ apc = "submitted"
  /\ \E aligner \in Aligners :
       \/ msa = [duplex |-> EmptyUnit, barcode |-> None, aligner |-> aligner,
                 outcomes |-> <<>>, result |-> <<>>,
                 stats |-> ZeroRunStats, stdout |-> <<>>]
       \/ \E os \in OrderSeqs : \E fams \in [DOMAIN os -> FamilySeqs] :
            msa = [duplex |-> AlignUnit(os, fams), barcode |-> "AC", aligner |-> aligner,
                   outcomes |-> <<>>, result |-> <<>>,
                   stats |-> ZeroRunStats, stdout |-> <<>>]

\* The worker runs process_duplex on the unit.
AlignDuplex ==
  /\ apc = "submitted"
  /\ \E o1 \in OutcomesOf(msa.duplex, msa.aligner, 1), o2 \in OutcomesOf(msa.duplex, msa.aligner, 2),
        o3 \in OutcomesOf(msa.duplex, msa.aligner, 3), o4 \in OutcomesOf(msa.duplex, msa.aligner, 4) :
       LET result == af_process_duplex(msa.duplex, msa.barcode, <<o1, o2, o3, o4>>)
       IN /\ msa' = [msa EXCEPT !.result = result,
                                !.outcomes = MadeCalls(msa.duplex, result, <<o1, o2, o3, o4>>)]
          /\ apc' = IF result.exit = "return" THEN "result" ELSE "error"
  /\ UNCHANGED <<spc, ssc, kpc, vote, gvars, cvars, dvars, wvars>>

\* The callback process_result adds up the statistics and prints the output.
AlignResult ==
  /\ apc = "result"
  /\ LET done == af_process_result(msa.result, msa.stats, msa.stdout)
     IN msa' = [msa EXCEPT !.stats = done.stats, !.stdout = done.stdout]
  /\ apc' = "written"
  /\ UNCHANGED <<spc, ssc, kpc, vote, gvars, cvars, dvars, wvars>>

NextAlign == AlignDuplex \/ AlignResult

SpecAlign == InitAlign /\ [][NextAlign]_vars

(***************************************************************************)
(* Claims about process_duplex of align-families.py.                       *)
(***************************************************************************)
AlignReturned == apc \in {"result", "written"}

\* The unit has one or two orders, none of them None.
AlignedUnit == Len(msa.duplex) \in {1, 2} /\ ~ODHas(msa.duplex, None)

\* The turns of the loop in which the aligner failed with an error of the
\* operating system or of the subprocess.
FailedTurns == {i \in DOMAIN msa.outcomes : msa.outcomes[i].exit \in {"OSError", "CalledProcessError"}}

\* The (order, mate) blocks in the order the claim gives them.
Blocks ==
  IF Len(msa.duplex) = 2
    THEN <<<<msa.duplex[1].k, 1>>, <<msa.duplex[2].k, 2>>,
           <<msa.duplex[1].k, 2>>, <<msa.duplex[2].k, 1>>>>
    ELSE <<<<msa.duplex[1].k, 1>>, <<msa.duplex[1].k, 2>>>>

BlockOf(line) == CHOOSE p \in DOMAIN Blocks : Blocks[p] = <<line.order, line.mate>>

\* The lines of the block p in the output.
BlockLines(p) == SelectSeq(msa.result.output, LAMBDA line : <<line.order, line.mate>> = Blocks[p])

C19_BlocksInFixedOrder ==
  (AlignReturned /\ AlignedUnit) =>
    LET output == msa.result.output
    IN /\ \A i \in DOMAIN output : <<output[i].order, output[i].mate>> \in Range(Blocks)
       /\ \A i, j \in DOMAIN output :
            i < j => /\ BlockOf(output[i]) <= BlockOf(output[j])
                     /\ BlockOf(output[i]) = BlockOf(output[j])
                          => output[i].name[1] < output[j].name[1]
       /\ \A p \in DOMAIN Blocks :
            p \notin FailedTurns =>
              [i \in DOMAIN BlockLines(p) |-> BlockLines(p)[i].name[1]]
                = [i \in DOMAIN ODGet(msa.duplex, Blocks[p][1]) |->
                     ODGet(msa.duplex, Blocks[p][1])[i].n]
       /\ apc = "written" => msa.stdout = output

\* A barcode whose order ba came first, two read pairs in each family, all
\* four families aligned by mafft and printed.
C19_Witness ==
  /\ apc = "written" /\ msa.aligner = "mafft"
  /\ Len(msa.duplex) = 2 /\ msa.duplex[1].k = "ba" /\ msa.duplex[2].k = "ab"
  /\ Len(msa.stdout) = 8
  /\ [i \in 1..8 |-> <<msa.stdout[i].order, msa.stdout[i].mate>>]
       = <<<<"ba", 1>>, <<"ba", 1>>, <<"ab", 2>>, <<"ab", 2>>,
           <<"ba", 2>>, <<"ba", 2>>, <<"ab", 1>>, <<"ab", 1>>>>

(***************************************************************************)
(* make-consensi.py: make_sscs() on the aligned reads of one family.       *)
(***************************************************************************)
MaxVoters == 4     \* reads of a family whose columns are voted on

\* --cons-thres as a fraction: the default 0.7 of the command line (line 89)
\* and the default 0.5 of process_duplex (line 339).
ConsThresholds == {<<7, 10>>, <<1, 2>>}

\* --qual (line 86): the default and no threshold.
QualThresholds == {20, 0}

\* --min-cons-reads (line 93): the default and a count of two.
MinConsReads == {0, 2}

\* The two readings of the minimum count: the consensus base "must be present
\* in more than this number of reads" (lines 93-96), or in at least that many.
CountRules == {"more than", "at least"}

VoteQuals == {10, 20, 30}

\* An aligned read of one column.
VoteReads == [seq : [1..1 -> {"A", "C"}], qual : [1..1 -> VoteQuals]]

VoteFamilies == UNION {[1..n -> VoteReads] : n \in 1..MaxVoters}

\* The reads that vote at column i and those of them that show base b.
Voters(seqs, quals, qual_thres, i) == {r \in DOMAIN seqs : quals[r][i] >= qual_thres}

Showing(seqs, quals, qual_thres, i, b) ==
  {r \in Voters(seqs, quals, qual_thres, i) : seqs[r][i] = b}

MeetsCount(count, min_reads, rule) ==
  IF rule = "more than" THEN count > min_reads ELSE count >= min_reads

\* The consensus module is not part of src/.  The vote at one column: the
\* base shown by more than cons_thres of the voting reads and by enough of
\* them, else N.
ConsensusBase(seqs, quals, cons_thres, min_reads, qual_thres, rule, i) ==
  LET total == Cardinality(Voters(seqs, quals, qual_thres, i))
      Wins(b) == LET count == Cardinality(Showing(seqs, quals, qual_thres, i, b))
                 IN /\ count * cons_thres[2] > total * cons_thres[1]
                    /\ MeetsCount(count, min_reads, rule)
      winners == {b \in Bases : Wins(b)}
  IN IF Cardinality(winners) = 1 THEN CHOOSE b \in winners : TRUE ELSE "N"

get_consensus(seqs, quals, cons_thres, min_reads, qual_thres, rule) ==
  [i \in DOMAIN seqs[1] |->
     ConsensusBase(seqs, quals, cons_thres, min_reads, qual_thres, rule, i)]

\* A make_sscs that would let every read vote, whatever its quality.
make_sscs_unfiltered(family, order, mate, qual_thres, cons_thres, min_cons_reads, rule) ==
  LET seqs == [r \in DOMAIN family |-> family[r].seq]
      quals == [r \in DOMAIN family |-> family[r].qual]
  IN [seq |-> get_consensus(seqs, quals, cons_thres, min_cons_reads, 0, rule),
      order |-> order, mate |-> mate, nreads |-> Len(family)]

\* make_sscs (lines 384-390).
make_sscs(family, order, mate, qual_thres, cons_thres, min_cons_reads, rule) ==
  LET seqs == [r \in DOMAIN family |-> family[r].seq]
      quals == [r \in DOMAIN family |-> family[r].qual]
  IN [seq |-> get_consensus(seqs, quals, cons_thres, min_cons_reads, qual_thres, rule),
      order |-> order, mate |-> mate, nreads |-> Len(family)]

InitVote ==
  /\ IdleGroup /\ IdleCorrect /\ IdleDuplex /\ IdleAlign /\ IdleSscs /\ IdleMain
  /\ kpc = "family"
  /\ \E family \in VoteFamilies, cons_thres \in ConsThresholds,
        qual_thres \in QualThresholds, min_cons_reads \in MinConsReads :
       vote = [family |-> family, cons_thres |-> cons_thres, qual_thres |-> qual_thres,
               min_cons_reads |-> min_cons_reads, sscs |-> Nothing]

\* make_sscss calls make_sscs for the family (line 379).
MakeSscs ==
  /\ kpc = "family"
  /\ \E rule \in CountRules :
       vote' = [vote EXCEPT !.sscs = Some(make_sscs(vote.family, "ab", 0, vote.qual_thres,
                                                     vote.cons_thres, vote.min_cons_reads,
                                                     rule))]
  /\ kpc' = "sscs"
  /\ UNCHANGED <<gvars, cvars, dvars, apc, msa, spc, ssc, wvars>>

NextVote == MakeSscs

SpecVote == InitVote /\ [][NextVote]_vars

(***************************************************************************)
(* Claims about the vote at a column.                                      *)
(***************************************************************************)
\* The reads of the family whose quality at the column is not below the
\* threshold, and those of them that show b.
VotingReads == {r \in DOMAIN vote.family : ~(vote.family[r].qual[1] < vote.qual_thres)}

VotesFor(b) == Cardinality({r \in VotingReads : vote.family[r].seq[1] = b})

\* b is shown by more than the threshold fraction of the voting reads.
AboveThreshold(b) ==
  VotesFor(b) * vote.cons_thres[2] > Cardinality(VotingReads) * vote.cons_thres[1]

AtThreshold(b) ==
  VotesFor(b) * vote.cons_thres[2] = Cardinality(VotingReads) * vote.cons_thres[1]

MostFrequent(b) == \A c \in Bases : VotesFor(c) <= VotesFor(b)

C12_WitnessLowQuality ==
  /\ kpc = "sscs"
  /\ vote.cons_thres = <<1, 2>> /\ vote.qual_thres = 20 /\ vote.min_cons_reads = 0
  /\ Len(vote.family) = 2
  /\ vote.family[1] = [seq |-> <<"A">>, qual |-> <<10>>]
  /\ vote.family[2] = [seq |-> <<"C">>, qual |-> <<20>>]
  /\ vote.sscs[1].seq = <<"C">>

(***************************************************************************)
(* sscs.py: main() and process_family(), with one process.                 *)
(***************************************************************************)
MaxSscsLines == 3  \* input lines of sscs.py

\* A line of seven columns (its barcode and the sequences of its two mates),
\* or a line with another number of columns.
SscsLines ==
  [kind : {"pair"}, bar : GroupBarcodes, seq1 : {<<"A">>, <<"T">>}, seq2 : {<<"C">>}]
    \cup {[kind |-> "bad", bar |-> "AC", seq1 |-> <<>>, seq2 |-> <<>>]}

\* What get_consensus reads from em_cons (lines 231-249): None for an empty
\* file, else the sequence.
EmConsOutcomes == {Nothing, Some(<<"a">>), Some(<<"n">>)}

\* A process_family without the branch for a single pair.
process_family_always_aligns(family, barcode, cons) ==
  [printed |-> (IF cons[1] # Nothing
                  THEN <<[bar |-> barcode, mate |-> 1, seq |-> cons[1][1]]>> ELSE <<>>)
               \o (IF cons[2] # Nothing
                     THEN <<[bar |-> barcode, mate |-> 2, seq |-> cons[2][1]]>> ELSE <<>>),
   calls |-> 2, pairs |-> Len(family)]

\* process_family (lines 183-206); cons are the two consensuses em_cons
\* gives if it is run.  calls: the calls of make_msa.
process_family(family, barcode, cons) ==
  IF Len(family) = 1
    THEN [printed |-> <<[bar |-> barcode, mate |-> 1, seq |-> family[1].seq1],
                        [bar |-> barcode, mate |-> 2, seq |-> family[1].seq2]>>,
          calls |-> 0, pairs |-> 1]
    ELSE [printed |-> (IF cons[1] # Nothing
                         THEN <<[bar |-> barcode, mate |-> 1, seq |-> cons[1][1]]>> ELSE <<>>)
                      \o (IF cons[2] # Nothing
                            THEN <<[bar |-> barcode, mate |-> 2, seq |-> cons[2][1]]>>
                            ELSE <<>>),
          calls |-> 2, pairs |-> Len(family)]

\* Lines 85-92 and 102-109: the family gathered so far is processed if it has
\* min_reads pairs.  closed keeps each family the loop has left, with what
\* was printed and called for it.
SscsClose(s, cons) ==
  LET big == Len(s.family) >= s.min_reads
      done == process_family(s.family, s.family_barcode, cons)
      entry == [bar |-> s.family_barcode, family |-> s.family,
                printed |-> IF big THEN done.printed ELSE <<>>,
                calls |-> IF big THEN done.calls ELSE 0]
  IN IF big
       THEN [s EXCEPT !.all_families = @ + 1,
                      !.stdout = @ \o done.printed,
                      !.total_pairs = @ + (IF done.pairs > 1 THEN done.pairs ELSE 0),
                      !.total_runs = @ + (IF done.pairs > 1 THEN 1 ELSE 0),
                      !.closed = Append(@, entry)]
       ELSE [s EXCEPT !.closed = Append(@, entry)]

\* The consensuses em_cons can give for the family: it is run only for a
\* family of two pairs or more that is processed.
ConsOf(s) ==
  IF Len(s.family) >= s.min_reads /\ Len(s.family) > 1
    THEN EmConsOutcomes \X EmConsOutcomes
    ELSE {<<Nothing, Nothing>>}

\* One turn of "for line in infile" (lines 77-100).
sscs_line(s, line, cons) ==
  IF line.kind = "bad" THEN [s EXCEPT !.line_num = @ + 1]
  ELSE LET new == line.bar # s.family_barcode
           t == IF new THEN [SscsClose(s, cons) EXCEPT !.family_barcode = line.bar,
                                                       !.family = <<>>]
                ELSE s
       IN [t EXCEPT !.family = Append(@, [seq1 |-> line.seq1, seq2 |-> line.seq2]),
                    !.all_pairs = @ + 1, !.line_num = @ + 1]

InitSscs ==
  /\ IdleGroup /\ IdleCorrect /\ IdleDuplex /\ IdleAlign /\ IdleVote /\ IdleMain
  /\ spc = "reading"
  /\ \E min_reads \in 1..DefaultMinReads :
       ssc = [min_reads |-> min_reads, line_num |-> 0, family |-> <<>>,
              family_barcode |-> None, all_pairs |-> 0, all_families |-> 0,
              total_pairs |-> 0, total_runs |-> 0, stdout |-> <<>>, closed |-> <<>>]

SscsLine ==
  /\ spc = "reading"
  /\ ssc.line_num < MaxSscsLines
  /\ \E line \in SscsLines :
       \E cons \in IF line.kind = "pair" /\ line.bar # ssc.family_barcode
                     THEN ConsOf(ssc) ELSE {<<Nothing, Nothing>>} :
         ssc' = sscs_line(ssc, line, cons)
  /\ UNCHANGED <<spc, gvars, cvars, dvars, apc, msa, kpc, vote, wvars>>

\* The input ends: the last family (lines 101-113).
SscsEnd ==
  /\ spc = "reading"
  /\ \E cons \in ConsOf(ssc) : ssc' = SscsClose(ssc, cons)
  /\ spc' = "done"
  /\ UNCHANGED <<gvars, cvars, dvars, apc, msa, kpc, vote, wvars>>

NextSscs == SscsLine \/ SscsEnd

SpecSscs == InitSscs /\ [][NextSscs]_vars

(***************************************************************************)
(* The three consensus stages side by side.                                *)
(***************************************************************************)
InitFamilies == InitAlign \/ InitDuplex \/ InitSscs

NextFamilies == NextAlign \/ NextDuplex \/ NextSscs

SpecFamilies == InitFamilies /\ [][NextFamilies]_vars

\* Turn i of the loop of process_duplex of align-families.py was taken with
\* a family of one read pair.
OneReadTurn(i) ==
  /\ i <= msa.result.turns
  /\ Len(ODGet(msa.duplex, Combos(msa.duplex)[i][2])) = 1

\* The lines of the output for the combo of turn i.
TurnLines(i) ==
  SelectSeq(msa.result.output,
            LAMBDA line : <<line.mate, line.order>> = Combos(msa.duplex)[i])

\* The families sscs.py has left that have one read pair.
OneReadClosed == {i \in DOMAIN ssc.closed : Len(ssc.closed[i].family) = 1}

Verbatim(entry) ==
  <<[bar |-> entry.bar, mate |-> 1, seq |-> entry.family[1].seq1],
    [bar |-> entry.bar, mate |-> 2, seq |-> entry.family[1].seq2]>>

C11_WitnessSkipped ==
  /\ spc = "done" /\ ssc.min_reads = DefaultMinReads
  /\ OneReadClosed # {}
  /\ ssc.stdout = <<>>

(***************************************************************************)
(* main() of align-families.py and of make-consensi.py: the checks of the  *)
(* arguments, the pool, the grouping loop inside try/finally, the workers  *)
(* and the result callback.  parallel_tools.SyncAsyncPool is not part of   *)
(* src/: a unit handed to compute() is processed by some worker at any     *)
(* later time, the callback is called in the submitting process, once for  *)
(* every result a worker returned, in any order, and the exception of a    *)
(* worker is raised in the submitter by compute() or flush().              *)
(***************************************************************************)
MaxMainLines == 3  \* input lines of a whole run

Scripts == {"align-families.py", "make-consensi.py"}

LoopOf(script) ==
  IF script = "align-families.py" THEN "align_families" ELSE "process_families"

\* --queue-size: not given, or an integer.
QueueSizes == {Nothing, Some(0), Some(2)}

\* The arguments of align-families.py; mafft_found is what
\* distutils.spawn.find_executable('mafft') comes to.
AfArgs ==
  {[queue_size |-> q, aligner |-> a, mafft_found |-> f, check_ids |-> TRUE] :
     q \in QueueSizes, a \in {"mafft", "kalign"}, f \in BOOLEAN}

SangerOffset == 33

LastQualChar == 126

NoFilehandles == [dcs |-> <<FALSE, FALSE>>, sscs |-> <<FALSE, FALSE>>]

\* The arguments of make-consensi.py; pair_align is whether the module could
\* be imported (lines 17-20).
McArgs ==
  {[queue_size |-> q, min_reads |-> 1, min_cons_reads |-> c, fastq_out |-> f,
    aligner |-> "biopython", pair_align |-> p, filehandles |-> fh] :
     q \in QueueSizes, c \in {0, 2}, f \in {Nothing, Some(40), Some(94)},
     p \in BOOLEAN, fh \in Filehandles \cup {NoFilehandles}}

ArgsOf(script) == IF script = "align-families.py" THEN AfArgs ELSE McArgs

QueueSizeError == "Error: --queue-size must be greater than zero."

\* The checks of align-families.py without the one of the queue size.
af_main_checks_any_queue(a) ==
  IF a.aligner = "mafft" /\ ~a.mafft_found
    THEN "Error: Could not find mafft command on $PATH."
  ELSE None

\* align-families.py main(), lines 119-125: the message fail() is called
\* with, None if no check fails.
af_main_checks(a) ==
  IF a.queue_size # Nothing /\ a.queue_size[1] <= 0 THEN QueueSizeError
  ELSE IF a.aligner = "mafft" /\ ~a.mafft_found
    THEN "Error: Could not find mafft command on $PATH."
  ELSE None

\* The checks of make-consensi.py without the one of the output files.
mc_main_checks_no_output(a) ==
  IF a.queue_size # Nothing /\ a.queue_size[1] <= 0 THEN QueueSizeError
  ELSE IF a.fastq_out # Nothing /\ SangerOffset + a.fastq_out[1] > LastQualChar
    THEN "Error: --fastq-out PHRED score is too large."
  ELSE IF a.min_cons_reads > a.min_reads
    THEN "Error: --min-reads must be greater than --min-cons-reads"
  ELSE IF a.aligner = "biopython" /\ ~a.pair_align
    THEN "Error: Could not import pair_align module."
  ELSE None

\* make-consensi.py main(), lines 172-197.
mc_main_checks(a) ==
  IF a.queue_size # Nothing /\ a.queue_size[1] <= 0 THEN QueueSizeError
  ELSE IF a.fastq_out # Nothing /\ SangerOffset + a.fastq_out[1] > LastQualChar
    THEN "Error: --fastq-out PHRED score is too large."
  ELSE IF a.min_cons_reads > a.min_reads
    THEN "Error: --min-reads must be greater than --min-cons-reads"
  ELSE IF a.aligner = "biopython" /\ ~a.pair_align
    THEN "Error: Could not import pair_align module."
  ELSE IF ~(\E i \in {1, 2} : a.filehandles.dcs[i] \/ a.filehandles.sscs[i])
    THEN "Error: must specify an output file!"
  ELSE None

main_checks(script, a) ==
  IF script = "align-families.py" THEN af_main_checks(a) ELSE mc_main_checks(a)

\* The lines of the input of a whole run: records of the two barcodes and
\* strands, one record with read names that do not match, and a line with
\* the wrong number of columns.
MainLinesOf(p) ==
  IF p = "align_families"
    THEN {[kind |-> "rec", bar |-> b, order |-> o, mate |-> 0, names |-> GoodNames] :
            b \in GroupBarcodes, o \in Orders}
           \cup {[kind |-> "rec", bar |-> "AC", order |-> "ab", mate |-> 0,
                  names |-> <<<<"r">>, <<"s">>>>], BadLine}
    ELSE {[kind |-> "rec", bar |-> b, order |-> "ab", mate |-> m, names |-> <<>>] :
            b \in GroupBarcodes, m \in Mates}
           \cup {BadLine}

\* stats as main() creates it (line 128, line 203 of make-consensi.py); 'duplexes' and 'pairs'
\* are counted in the locals of the loop.
MainStats(script) ==
  IF script = "align-families.py" THEN ZeroRunStats ELSE [runs |-> 0, reads |-> 0]

NoFiles == [sscs |-> <<<<>>, <<>>>>, dcs |-> <<<<>>, <<>>>>]

NoResults == [i \in {} |-> Nothing]

InitMain ==
  /\ IdleGroup /\ IdleCorrect /\ IdleDuplex /\ IdleAlign /\ IdleSscs /\ IdleVote
  /\ \E script \in Scripts : \E a \in ArgsOf(script) :
       /\ main = [script |-> script, pc |-> "checks", args |-> a,
                  stats |-> MainStats(script), todo |-> <<>>, status |-> Nothing]
       /\ written = IF script = "align-families.py" THEN <<>> ELSE NoFiles
  /\ pool = [state |-> "none", calls |-> <<>>, results |-> NoResults, delivered |-> <<>>]

\* The checks of the arguments; fail() logs the message and calls
\* sys.exit(1), a SystemExit the "except (Exception, KeyboardInterrupt)" of
\* main() does not catch.
MainChecks ==
  /\ main.pc = "checks"
  /\ main' = IF main_checks(main.script, main.args) # None
               THEN [main EXCEPT !.pc = "exit", !.status = Some(1)]
               ELSE [main EXCEPT !.pc = "pool"]
  /\ UNCHANGED <<pool, written, gvars, cvars, dvars, evars>>

\* The pool is created and the loop is called inside "try" (align-families.py
\* lines 128-136, make-consensi.py lines 203-213).
MainPool ==
  /\ main.pc = "pool"
  /\ main' = [main EXCEPT !.pc = "loop"]
  /\ pool' = [pool EXCEPT !.state = "open"]
  /\ prog' = LoopOf(main.script)
  /\ infile' = <<>>
  /\ loc' = LoopInit(LoopOf(main.script),
                    IF main.script = "align-families.py" THEN main.args.check_ids ELSE TRUE)
  /\ units' = <<>>
  /\ gpc' = "reading"
  /\ exc' = None
  /\ UNCHANGED <<written, cvars, dvars, evars>>

LoopLine(p, l, line, n) ==
  IF p = "align_families" THEN align_families_line(l, line, n)
  ELSE process_families_line(l, line, n)

LoopEnd(p, l) ==
  IF p = "align_families" THEN align_families_end(l) ELSE process_families_end(l)

\* pool.compute() is called once for every unit the step hands over.
Computes(emit) == [i \in DOMAIN emit |-> "compute"]

\* One iteration of the loop of the script.
MainLine ==
  /\ main.pc = "loop" /\ gpc = "reading"
  /\ Len(infile) < MaxMainLines
  /\ \E line \in MainLinesOf(prog) :
       LET step == LoopLine(prog, loc, line, Len(infile) + 1)
       IN /\ infile' = Append(infile, line)
          /\ Took(step, "reading")
          /\ pool' = [pool EXCEPT !.calls = @ \o Computes(step.emit)]
  /\ UNCHANGED <<prog, main, written, cvars, dvars, evars>>

\* The end of the input: the last unit is submitted.
MainEnd ==
  /\ main.pc = "loop" /\ gpc = "reading"
  /\ LET step == LoopEnd(prog, loc)
     IN /\ Took(step, "done")
        /\ pool' = [pool EXCEPT !.calls = @ \o Computes(step.emit)]
  /\ UNCHANGED <<prog, infile, main, written, cvars, dvars, evars>>

\* Reading the next line fails.
MainReadRaises ==
  /\ main.pc = "loop" /\ gpc = "reading"
  /\ gpc' = "error"
  /\ exc' = "OSError"
  /\ UNCHANGED <<prog, infile, loc, units, main, pool, written, cvars, dvars, evars>>

\* The read columns of the lines of a unit, which the grouping loop stands
\* for by the number of the line.
WithSeqs(duplex) ==
  [i \in DOMAIN duplex |->
     [k |-> duplex[i].k,
      v |-> [j \in DOMAIN duplex[i].v |->
               [n |-> duplex[i].v[j], seqs |-> <<<<"A">>, <<"T">>>>]]]]

\* What process_duplex may come to in a worker, whatever the aligner and
\* the consensus module do.
WorkerResults(script, a, unit) ==
  IF script = "align-families.py"
    THEN LET duplex == WithSeqs(unit.duplex)
         IN {af_process_duplex(duplex, unit.barcode, <<o1, o2, o3, o4>>) :
               o1 \in OutcomesOf(duplex, a.aligner, 1),
               o2 \in OutcomesOf(duplex, a.aligner, 2),
               o3 \in OutcomesOf(duplex, a.aligner, 3),
               o4 \in OutcomesOf(duplex, a.aligner, 4)}
    ELSE UNION {{process_duplex(unit.duplex, unit.barcode, a.min_reads, a.aligner,
                                consensus_seq, aligns) :
                   aligns \in AlignsOf(make_sscss(unit.duplex, a.min_reads, consensus_seq),
                                       a.aligner)} :
                  consensus_seq \in [SscsKeys(unit.duplex, a.min_reads) -> ConsensusSeqs]}

Returned(script, result) ==
  IF script = "align-families.py" THEN result.exit = "return" ELSE ~result.raised

WorkerException(script, result) ==
  IF script = "align-families.py" THEN result.exit ELSE result.exc

\* A worker runs process_duplex on a unit that was submitted.
MainWorker ==
  /\ pool.state \in {"open", "closed"}
  /\ \E i \in DOMAIN units \ DOMAIN pool.results :
       \E r \in WorkerResults(main.script, main.args, units[i]) :
         pool' = [pool EXCEPT !.results =
                    [j \in DOMAIN pool.results \cup {i} |->
                       IF j = i THEN r ELSE pool.results[j]]]
  /\ UNCHANGED <<main, written, gvars, cvars, dvars, evars>>

\* The pool calls process_result with a result a worker returned.
MainCallback ==
  /\ pool.state \in {"open", "closed"}
  /\ \E i \in DOMAIN pool.results \ Range(pool.delivered) :
       /\ Returned(main.script, pool.results[i])
       /\ IF main.script = "align-families.py"
            THEN LET done == af_process_result(pool.results[i], main.stats, written)
                 IN /\ main' = [main EXCEPT !.stats = done.stats]
                    /\ written' = done.stdout
            ELSE LET done == process_result(pool.results[i], main.args.filehandles,
                                            written, main.stats)
                 IN /\ main' = [main EXCEPT !.stats = done.stats]
                    /\ written' = done.files
       /\ pool' = [pool EXCEPT !.delivered = Append(@, i)]
  /\ UNCHANGED <<gvars, cvars, dvars, evars>>

\* The exception of a worker is raised in the loop, by compute() or flush().
MainPoolRaises ==
  /\ main.pc = "loop" /\ gpc \in {"reading", "done"}
  /\ \E i \in DOMAIN pool.results :
       /\ ~Returned(main.script, pool.results[i])
       /\ exc' = WorkerException(main.script, pool.results[i])
  /\ gpc' = "error"
  /\ UNCHANGED <<prog, infile, loc, units, main, pool, written, cvars, dvars, evars>>

\* A "finally" that would be an "else": nothing is done for an exception.
main_finally_else(raised) == IF raised THEN <<>> ELSE <<"close", "join">>

\* The calls on the pool in the "finally" of main() (align-families.py lines
\* 137-141, make-consensi.py lines 214-218), whether the loop raised or not.
main_finally(raised) == <<"close", "join">>

\* pool.flush() returns when the callback has had every result (line 271 of
\* align-families.py, line 317 of make-consensi.py); the loop returns.
MainFlush ==
  /\ main.pc = "loop" /\ gpc = "done"
  /\ \A i \in DOMAIN units : i \in Range(pool.delivered)
  /\ main' = [main EXCEPT !.pc = "finally", !.todo = main_finally(FALSE)]
  /\ pool' = [pool EXCEPT !.calls = Append(@, "flush")]
  /\ UNCHANGED <<written, gvars, cvars, dvars, evars>>

\* An exception leaves the "try" block.
MainUnwind ==
  /\ main.pc = "loop" /\ gpc = "error"
  /\ main' = [main EXCEPT !.pc = "finally", !.todo = main_finally(TRUE)]
  /\ UNCHANGED <<pool, written, gvars, cvars, dvars, evars>>

\* The next call of the "finally" block.
MainFinally ==
  /\ main.pc = "finally" /\ main.todo # <<>>
  /\ pool' = [pool EXCEPT !.calls = Append(@, Head(main.todo)),
                          !.state = IF Head(main.todo) = "close" THEN "closed" ELSE "joined"]
  /\ main' = [main EXCEPT !.todo = Tail(@)]
  /\ UNCHANGED <<written, gvars, cvars, dvars, evars>>

\* After "finally": the exception goes on up and ends the run with status 1,
\* or main() returns.
MainReturn ==
  /\ main.pc = "finally" /\ main.todo = <<>>
  /\ main' = [main EXCEPT !.pc = IF gpc = "error" THEN "raised" ELSE "done",
                          !.status = Some(IF gpc = "error" THEN 1 ELSE 0)]
  /\ UNCHANGED <<pool, written, gvars, cvars, dvars, evars>>

NextMain ==
  \/ MainChecks \/ MainPool
  \/ MainLine \/ MainEnd \/ MainReadRaises \/ MainPoolRaises
  \/ MainWorker \/ MainCallback
  \/ MainFlush \/ MainUnwind \/ MainFinally \/ MainReturn

SpecMain == InitMain /\ [][NextMain]_vars

(***************************************************************************)
(* Claims about main().                                                    *)
(***************************************************************************)
NonPositiveQueueSize == main.args.queue_size # Nothing /\ main.args.queue_size[1] <= 0

\* --min-cons-reads is "the absolute threshold to use when making consensus
\* sequences" (make-consensi.py line 93); its default is 0.
NonPositiveThreshold ==
  main.script = "make-consensi.py" /\ main.args.min_cons_reads <= 0

ConsReadsAboveFamilySize ==
  main.script = "make-consensi.py" /\ main.args.min_cons_reads > main.args.min_reads

NoOutputFile ==
  main.script = "make-consensi.py" /\ main.args.filehandles = NoFilehandles

\* The other checks of main(): the aligner cannot be run or imported, the
\* quality character of --fastq-out is beyond "~".
AlignerMissing ==
  IF main.script = "align-families.py"
    THEN main.args.aligner = "mafft" /\ ~main.args.mafft_found
    ELSE main.args.aligner = "biopython" /\ ~main.args.pair_align

FastqOutTooLarge ==
  /\ main.script = "make-consensi.py"
  /\ main.args.fastq_out # Nothing
  /\ SangerOffset + main.args.fastq_out[1] > LastQualChar

\* No pool, no line read, no unit submitted.
NothingStarted ==
  /\ pool.state = "none" /\ pool.calls = <<>> /\ pool.results = NoResults
  /\ infile = <<>> /\ units = <<>> /\ gpc = "idle"

\* The run is still at the checks, or ended by them with a non-zero status.
StoppedAtChecks ==
  /\ NothingStarted
  /\ main.pc \in {"checks", "exit"}
  /\ main.pc = "exit" => (main.status # Nothing /\ main.status[1] # 0)

C23_WitnessThreshold ==
  /\ NonPositiveThreshold /\ main.pc = "done" /\ main.status = Some(0)
  /\ units # <<>>

Count(s, x) == Cardinality({i \in DOMAIN s : s[i] = x})

LastTwo(s) == SubSeq(s, Len(s) - 1, Len(s))

\* C21: whenever the loop of main() is left, by its return or by an
\* exception, pool.close() and then pool.join() are called before main()
\* goes on or the exception goes further up, and no unit is submitted to the
\* pool after close().
C21_PoolClosedOnEveryExit ==
  /\ main.pc \in {"raised", "done"} =>
       /\ Len(pool.calls) >= 2 /\ LastTwo(pool.calls) = <<"close", "join">>
       /\ pool.state = "joined"
  /\ \A i, j \in DOMAIN pool.calls :
       (i < j /\ pool.calls[i] = "close") => pool.calls[j] = "join"
  /\ Count(pool.calls, "compute") = Len(units)
  /\ main.pc = "raised" => (gpc = "error" /\ exc # None)
  /\ main.pc = "done" => (gpc = "done" /\ exc = None)

\* The exception of a worker ended the loop after a unit was submitted, and
\* the pool was closed and joined.
C21_Witness ==
  /\ main.pc = "raised" /\ exc = "ImportError"
  /\ Len(units) >= 1
  /\ LastTwo(pool.calls) = <<"close", "join">>

\* The loop was left by a mismatch of the read names.
C21_WitnessCheck ==
  /\ main.pc = "raised" /\ exc = MismatchError /\ pool.state = "joined"

\* The barcode of every line (record) of an output.
Contiguous(s) ==
  \A i, k \in DOMAIN s :
    (i < k /\ s[i].bar = s[k].bar) => \A j \in i..k : s[j].bar = s[i].bar

\* What was written, one sequence for each output.
Outputs ==
  IF main.script = "align-families.py" THEN {written}
  ELSE {written.sscs[1], written.sscs[2], written.dcs[1], written.dcs[2]}

\* Every barcode is one unit, as in a sorted input.
OneUnitPerBarcode ==
  \A i, j \in DOMAIN units : i # j => units[i].barcode # units[j].barcode

RECURSIVE OutputsOf(_, _)
OutputsOf(results, order) ==
  IF order = <<>> THEN <<>>
  ELSE results[Head(order)].output \o OutputsOf(results, Tail(order))

=============================================================================
